---- MODULE Spec2Model ----
(***************************************************************************)
(* Access-grant lifecycle of crates/core/src/expr/statements/access.rs:    *)
(* the grant entity, the bearer key codec and the four statements          *)
(* ACCESS ... GRANT / SHOW / REVOKE / PURGE run against the grant store.   *)
(*                                                                         *)
(* Time is counted in ticks, TicksPerSec of them to the second, so that    *)
(* Datetime keeps a sub-second part which timestamp() drops.               *)
(***************************************************************************)
EXTENDS Integers, Sequences, FiniteSets, TLC

VARIABLES
    store,  \* grant store: key (tenancy scope, access method, grant id) -> AccessGrant
    defs,   \* the namespace and database definitions that exist
    now,    \* the wall clock, in ticks
    op,     \* the statement executed last, with the session options it ran under
    out,    \* what that statement returned: Ok(value) or Err(error)
    calls,  \* the transaction calls that statement issued, in order
    log,    \* the audit and error lines that statement emitted, in order
    pending \* the statements suspended between their read and their write, by task

vars == <<store, defs, now, op, out, calls, log, pending>>

----------------------------------------------------------------------------
(* Bounds of the model. *)

\* Ticks to the second.
TicksPerSec == 2
\* The clock stops at MaxTime ticks.
MaxTime == 3
\* Grace durations of PURGE statements range over 0..MaxGrace seconds.
MaxGrace == 1

----------------------------------------------------------------------------
(* Option<T> and Result<T>. *)

None == <<>>
Some(x) == <<x>>
IsSome(o) == o # <<>>
Unwrap(o) == o[1]

Ok(v) == [ok |-> TRUE, v |-> v]
Err(e) == [ok |-> FALSE, e |-> e]

----------------------------------------------------------------------------
(* Datetime, Duration and the 64-bit arithmetic of compute_purge. *)

\* Datetime::timestamp(): whole seconds, the sub-second part dropped.
timestamp(dt) == dt \div TicksPerSec

\* Duration::secs(): the whole seconds of a duration.
secs(d) == d \div TicksPerSec

\* A u64 is kept as four 16-bit limbs, most significant first.
Limb == 65536

\* i64::saturating_sub: clamps at the ends of i64, which lie outside the
\* range of the model's clock, so that the difference is exact here.
saturating_sub(a, b) == a - b

\* `x as u64` of an i64: the value itself when x >= 0, and 2^64 + x (two's
\* complement) when x < 0.
as_u64(x) ==
    IF x >= 0
    THEN <<0, 0, x \div Limb, x % Limb>>
    ELSE LET m == (-x) - 1
         IN <<Limb - 1, Limb - 1, (Limb - 1) - (m \div Limb), (Limb - 1) - (m % Limb)>>

\* a > b on u64.
RECURSIVE u64_gt_from(_, _, _)
u64_gt_from(a, b, i) ==
    IF i > 4 THEN FALSE
    ELSE IF a[i] # b[i] THEN a[i] > b[i]
    ELSE u64_gt_from(a, b, i + 1)

u64_gt(a, b) == u64_gt_from(a, b, 1)

U64Zero == as_u64(0)

----------------------------------------------------------------------------
(* Bearer key codec. *)

\* The text put in place of a bearer key by redacted().
REDACTED == <<"[REDACTED]">>

\* GrantBearer::new: the key is "{prefix}-{id}-{secret}"; id and secret are
\* the two random strings, drawn by the caller of this operator.
GrantBearer_new(prefix, id, secret) ==
    [variant |-> "bearer", id |-> id, key |-> <<prefix, "-", id, "-", secret>>]

\* Lowercase hex of the SHA-256 digest of a string: a string that is no
\* bearer key and no redaction marker, and differs for different inputs.
Sha256Hex(s) == <<"sha256">> \o s

\* The bearer grant kept as it is, its key in plain text.
hashed_not(gb) == gb

\* GrantBearer::hashed
hashed(gb) == [gb EXCEPT !.key = Sha256Hex(gb.key)]

----------------------------------------------------------------------------
(* Grant entity. *)

\* The grant as it is, its secret left in.
redacted_not(gr) == gr

\* A redaction that hashes the key of a bearer grant instead of replacing it.
redacted_hashing(gr) ==
    [gr EXCEPT !.grant =
        CASE @.variant = "jwt"    -> [@ EXCEPT !.token = None]
          [] @.variant = "record" -> [@ EXCEPT !.token = None]
          [] @.variant = "bearer" -> [@ EXCEPT !.key = Sha256Hex(@)]]

\* AccessGrant::redacted
redacted(gr) ==
    [gr EXCEPT !.grant =
        CASE @.variant = "jwt"    -> [@ EXCEPT !.token = None]
          [] @.variant = "record" -> [@ EXCEPT !.token = None]
          [] @.variant = "bearer" -> [@ EXCEPT !.key = REDACTED]]

\* An expiry test that counts the instant of expiration as expired.
is_expired_on_time(gr, t) == IsSome(gr.expiration) /\ Unwrap(gr.expiration) <= t

\* AccessGrant::is_expired, with Datetime::default() = t
is_expired(gr, t) == IsSome(gr.expiration) /\ Unwrap(gr.expiration) < t

\* AccessGrant::is_revoked
is_revoked(gr) == IsSome(gr.revocation)

\* AccessGrant::is_active
is_active(gr, t) == ~(is_expired(gr, t) \/ is_revoked(gr))

\* Subject::id
Subject_id(s) == s.id

\* impl From<AccessGrant> for Object: the document a condition is evaluated on.
ToObject(gr) ==
    [id |-> gr.id, ac |-> gr.ac, type |-> gr.grant.variant,
     creation |-> gr.creation, expiration |-> gr.expiration,
     revocation |-> gr.revocation,
     subject |-> IF gr.subject.variant = "Record"
                 THEN [record |-> gr.subject.id]
                 ELSE [user |-> gr.subject.id],
     grant |-> CASE gr.grant.variant = "jwt" ->
                      IF IsSome(gr.grant.token)
                      THEN [jti |-> gr.grant.jti, token |-> Unwrap(gr.grant.token)]
                      ELSE [jti |-> gr.grant.jti]
                 [] gr.grant.variant = "record" ->
                      IF IsSome(gr.grant.token)
                      THEN [rid |-> gr.grant.rid, jti |-> gr.grant.jti,
                            token |-> Unwrap(gr.grant.token)]
                      ELSE [rid |-> gr.grant.rid, jti |-> gr.grant.jti]
                 [] gr.grant.variant = "bearer" ->
                      [id |-> gr.grant.id, key |-> gr.grant.key]]

----------------------------------------------------------------------------
(* What the engine consumes: access definitions, users, session options,   *)
(* the condition evaluator and the transaction.                            *)

\* Tenancy scopes in which the catalog defines something.
ScopeRoot == <<"root">>
ScopeNs   == <<"ns", "n1">>
ScopeDb   == <<"db", "n1", "d1">>

\* The access definitions of the catalog (DEFINE ACCESS), by scope and name.
Catalog ==
    { [scope |-> ScopeDb, name |-> "api",
       kind |-> [t |-> "Bearer", kind |-> "Bearer", subject |-> "User"],
       duration |-> [grant |-> Some(1)]],
      [scope |-> ScopeDb, name |-> "rapi",
       kind |-> [t |-> "Bearer", kind |-> "Bearer", subject |-> "Record"],
       duration |-> [grant |-> None]],
      [scope |-> ScopeDb, name |-> "rec",
       kind |-> [t |-> "Record", bearer |-> Some([kind |-> "Refresh"])],
       duration |-> [grant |-> Some(1)]],
      [scope |-> ScopeDb, name |-> "recnb",
       kind |-> [t |-> "Record", bearer |-> None],
       duration |-> [grant |-> Some(1)]],
      [scope |-> ScopeDb, name |-> "tok",
       kind |-> [t |-> "Jwt"],
       duration |-> [grant |-> Some(1)]],
      [scope |-> ScopeNs, name |-> "api",
       kind |-> [t |-> "Bearer", kind |-> "Bearer", subject |-> "User"],
       duration |-> [grant |-> None]],
      [scope |-> ScopeNs, name |-> "rec",
       kind |-> [t |-> "Record", bearer |-> Some([kind |-> "Refresh"])],
       duration |-> [grant |-> None]],
      [scope |-> ScopeRoot, name |-> "api",
       kind |-> [t |-> "Bearer", kind |-> "Bearer", subject |-> "User"],
       duration |-> [grant |-> Some(1)]],
      [scope |-> ScopeRoot, name |-> "rec",
       kind |-> [t |-> "Record", bearer |-> Some([kind |-> "Refresh"])],
       duration |-> [grant |-> None]],
      [scope |-> ScopeNs, name |-> "rapi",
       kind |-> [t |-> "Bearer", kind |-> "Bearer", subject |-> "Record"],
       duration |-> [grant |-> None]],
      [scope |-> ScopeRoot, name |-> "rapi",
       kind |-> [t |-> "Bearer", kind |-> "Bearer", subject |-> "Record"],
       duration |-> [grant |-> None]],
      [scope |-> ScopeNs, name |-> "tok",
       kind |-> [t |-> "Jwt"],
       duration |-> [grant |-> None]],
      [scope |-> ScopeRoot, name |-> "tok",
       kind |-> [t |-> "Jwt"],
       duration |-> [grant |-> None]] }

\* The users of the catalog (DEFINE USER), by scope and name.
Users ==
    { <<ScopeRoot, "tobie">>, <<ScopeNs, "tobie">>, <<ScopeDb, "tobie">>,
      <<ScopeRoot, "jaime">> }

\* BearerAccessType::prefix
prefix(kind) == IF kind = "Refresh" THEN "surreal-refresh" ELSE "surreal-bearer"

\* Key identifiers, in the byte order of their store keys.
IdOrder == <<"k1", "k2", "k3">>

\* Options::selected_base
selected_base(opt) ==
    CASE ~IsSome(opt.ns) /\ ~IsSome(opt.db) -> Ok("Root")
      [] IsSome(opt.ns) /\ ~IsSome(opt.db)  -> Ok("Ns")
      [] IsSome(opt.ns) /\ IsSome(opt.db)   -> Ok("Db")
      [] OTHER                              -> Err("NsEmpty")

\* Options::is_allowed(action, ResourceKind::Access, base)
is_allowed(opt, action, base) ==
    IF <<action, base>> \in opt.auth.allowed THEN Ok("") ELSE Err("NotAllowed")

\* The scope a base names under the session's selection: opt.ns()? and
\* opt.ns_db()? fail when nothing is selected, and any base other than
\* Root, Ns and Db is not managed here.
base_scope(base, opt) ==
    CASE base = "Root" -> Ok(ScopeRoot)
      [] base = "Ns" ->
            IF IsSome(opt.ns) THEN Ok(<<"ns", Unwrap(opt.ns)>>) ELSE Err("NsEmpty")
      [] base = "Db" ->
            IF ~IsSome(opt.ns) THEN Err("NsEmpty")
            ELSE IF ~IsSome(opt.db) THEN Err("DbEmpty")
            ELSE Ok(<<"db", Unwrap(opt.ns), Unwrap(opt.db)>>)
      [] OTHER -> Err("Unimplemented")

\* crate::key::{root,namespace,database}::access::gr::new
gr_key(scope, ac, id) == scope \o <<ac, id>>

\* Cond::compute(..).catch_return()?.is_truthy() on the document of a grant.
cond_compute(cond, doc) ==
    CASE cond.t = "subject_user" ->
            Ok("user" \in DOMAIN doc.subject /\ doc.subject.user = cond.v)
      [] cond.t = "id" -> Ok(doc.id = cond.v)
      [] cond.t = "key" -> Ok(doc.type = "bearer" /\ doc.grant.key = cond.v)
      [] cond.t = "expires" -> Ok(IsSome(doc.expiration))
      [] cond.t = "throw_on_id" ->
            IF doc.id = cond.v THEN Err("Thrown") ELSE Ok(TRUE)

(* The transaction a statement runs in. T carries the grant store and the   *)
(* definitions as the transaction sees them, the calls issued and the lines *)
(* logged so far, the clock readings still to come, and the write call that *)
(* the store will fail (0: none).                                           *)

Txn(st, df, clk, fault) ==
    [store |-> st, defs |-> df, calls |-> <<>>, log |-> <<>>,
     clk |-> clk, writes |-> 0, fault |-> fault]

\* What a statement leaves behind: its result and the transaction's state.
Ret(T, r) ==
    [out |-> r, store |-> T.store, defs |-> T.defs, calls |-> T.calls, log |-> T.log,
     clk |-> T.clk]

Call(T, c) == [T EXCEPT !.calls = Append(@, c)]
Logged(T, l) == [T EXCEPT !.log = Append(@, l)]

\* Datetime::default(): the next reading of the wall clock.
clock(T) == Head(T.clk)
Read(T) == [T EXCEPT !.clk = Tail(@)]

\* Transaction::clear
tx_clear(T) == Call(T, <<"clear">>)

\* Transaction::get_{root,ns,db}_access
tx_get_access(T, scope, name) ==
    LET found == {d \in Catalog : d.scope = scope /\ d.name = name}
    IN [t |-> Call(T, <<"get_access", scope, name>>),
        r |-> IF found = {} THEN Err("AccessNotFound")
              ELSE Ok(CHOOSE d \in found : TRUE)]

\* Transaction::get_{root,ns,db}_user
tx_get_user(T, scope, user) ==
    [t |-> Call(T, <<"get_user", scope, user>>),
     r |-> IF <<scope, user>> \in Users THEN Ok(user) ELSE Err("UserNotFound")]

\* Transaction::get_or_add_ns and get_or_add_db on a definition key
tx_get_or_add(T, key, strict) ==
    LET T1 == Call(T, <<"get_or_add", key>>)
    IN IF key \in T.defs THEN [t |-> T1, r |-> Ok("")]
       ELSE IF strict THEN [t |-> T1, r |-> Err("NotFound")]
       ELSE [t |-> [T1 EXCEPT !.defs = @ \cup {key}], r |-> Ok("")]

\* Transaction::get_{root,ns,db}_access_grant
tx_get_grant(T, key) ==
    [t |-> Call(T, <<"get", key>>),
     r |-> IF key \in DOMAIN T.store THEN Ok(T.store[key])
           ELSE Err("AccessGrantNotFound")]

\* Transaction::all_{root,ns,db}_access_grants: the grants under the access
\* method, in key order.
tx_all_grants(T, scope, ac) ==
    LET ids == SelectSeq(IdOrder, LAMBDA i : gr_key(scope, ac, i) \in DOMAIN T.store)
    IN [t |-> Call(T, <<"scan", scope \o <<ac>>>>),
        r |-> Ok([n \in 1..Len(ids) |-> T.store[gr_key(scope, ac, ids[n])]])]

\* A write call: the store fails the one numbered T.fault.
Write(T, c) == [Call(T, c) EXCEPT !.writes = @ + 1]
Faulty(T) == T.fault = T.writes + 1

\* Transaction::put: insert, failing when the key is present.
tx_put(T, key, val) ==
    LET T1 == Write(T, <<"put", key>>)
    IN IF Faulty(T) THEN [t |-> T1, r |-> Err("Tx")]
       ELSE IF key \in DOMAIN T.store THEN [t |-> T1, r |-> Err("TxKeyAlreadyExists")]
       ELSE [t |-> [T1 EXCEPT !.store = (key :> val) @@ @], r |-> Ok("")]

\* Transaction::set: write, whether or not the key is present.
tx_set(T, key, val) ==
    LET T1 == Write(T, <<"set", key>>)
    IN IF Faulty(T) THEN [t |-> T1, r |-> Err("Tx")]
       ELSE [t |-> [T1 EXCEPT !.store = (key :> val) @@ @], r |-> Ok("")]

\* Transaction::del
tx_del(T, key) ==
    LET T1 == Write(T, <<"del", key>>)
    IN IF Faulty(T) THEN [t |-> T1, r |-> Err("Tx")]
       ELSE [t |-> [T1 EXCEPT !.store = [k \in DOMAIN @ \ {key} |-> @[k]]],
             r |-> Ok("")]

\* The ancestors of a grant key are ensured before a write under Ns and Db.
ensure_ancestors(T, scope, strict) ==
    CASE scope[1] = "root" -> [t |-> T, r |-> Ok("")]
      [] scope[1] = "ns" -> tx_get_or_add(T, scope, strict)
      [] scope[1] = "db" ->
            LET a == tx_get_or_add(T, <<"ns", scope[2]>>, strict)
            IN IF ~a.r.ok THEN a ELSE tx_get_or_add(a.t, scope, strict)

\* The head of a statement with the cache cleared before the permission is
\* looked at.
resolve_clear_first(T, stmt, opt, action) ==
    LET base == IF IsSome(stmt.base) THEN Ok(Unwrap(stmt.base)) ELSE selected_base(opt)
    IN IF ~base.ok THEN [t |-> T, r |-> base]
       ELSE LET T1 == tx_clear(T)
                allowed == is_allowed(opt, action, base.v)
       IN IF ~allowed.ok THEN [t |-> T1, r |-> allowed]
       ELSE LET scope == base_scope(base.v, opt)
       IN IF ~scope.ok THEN [t |-> T1, r |-> scope]
       ELSE LET ac == tx_get_access(T1, scope.v, stmt.ac)
       IN IF ~ac.r.ok THEN ac
       ELSE [t |-> ac.t, r |-> Ok([base |-> base.v, scope |-> scope.v, ac |-> ac.r.v])]

\* The head of a statement that takes a missing access method for one
\* without grant duration and goes on.
resolve_soft_miss(T, stmt, opt, action) ==
    LET base == IF IsSome(stmt.base) THEN Ok(Unwrap(stmt.base)) ELSE selected_base(opt)
    IN IF ~base.ok THEN [t |-> T, r |-> base]
       ELSE LET allowed == is_allowed(opt, action, base.v)
       IN IF ~allowed.ok THEN [t |-> T, r |-> allowed]
       ELSE LET T1 == tx_clear(T)
                scope == base_scope(base.v, opt)
       IN IF ~scope.ok THEN [t |-> T1, r |-> scope]
       ELSE LET ac == tx_get_access(T1, scope.v, stmt.ac)
                missing == [scope |-> scope.v, name |-> stmt.ac,
                            kind |-> [t |-> "Bearer", kind |-> "Bearer", subject |-> "User"],
                            duration |-> [grant |-> None]]
       IN [t |-> ac.t,
           r |-> Ok([base |-> base.v, scope |-> scope.v,
                     ac |-> IF ac.r.ok THEN ac.r.v ELSE missing])]

\* The head of a statement with the cache cleared after the access method
\* has been looked up.
resolve_clear_late(T, stmt, opt, action) ==
    LET base == IF IsSome(stmt.base) THEN Ok(Unwrap(stmt.base)) ELSE selected_base(opt)
    IN IF ~base.ok THEN [t |-> T, r |-> base]
       ELSE LET allowed == is_allowed(opt, action, base.v)
       IN IF ~allowed.ok THEN [t |-> T, r |-> allowed]
       ELSE LET scope == base_scope(base.v, opt)
       IN IF ~scope.ok THEN [t |-> T, r |-> scope]
       ELSE LET ac == tx_get_access(T, scope.v, stmt.ac)
       IN IF ~ac.r.ok THEN ac
       ELSE [t |-> tx_clear(ac.t),
             r |-> Ok([base |-> base.v, scope |-> scope.v, ac |-> ac.r.v])]

\* The head every statement shares: base, permission, cache clear and the
\* lookup of the access method. r holds [base, scope, ac] on success.
resolve(T, stmt, opt, action) ==
    LET base == IF IsSome(stmt.base) THEN Ok(Unwrap(stmt.base)) ELSE selected_base(opt)
    IN IF ~base.ok THEN [t |-> T, r |-> base]
       ELSE LET allowed == is_allowed(opt, action, base.v)
       IN IF ~allowed.ok THEN [t |-> T, r |-> allowed]
       ELSE LET T1 == tx_clear(T)
                scope == base_scope(base.v, opt)
       IN IF ~scope.ok THEN [t |-> T1, r |-> scope]
       ELSE LET ac == tx_get_access(T1, scope.v, stmt.ac)
       IN IF ~ac.r.ok THEN ac
       ELSE [t |-> ac.t, r |-> Ok([base |-> base.v, scope |-> scope.v, ac |-> ac.r.v])]

----------------------------------------------------------------------------
(* ACCESS ... GRANT *)

\* The audit line of a statement on a grant.
info(verb, gr, opt) ==
    <<"info", verb, gr.ac, gr.id, gr.grant.variant, Subject_id(gr.subject), opt.auth.id>>

\* The grant built by create_grant: creation is one reading of the clock,
\* expiration the grant duration added to the next reading.
new_grant(ac, stmt, grant, T) ==
    LET T1 == Read(T)
    IN [id |-> grant.id,
        ac |-> ac.name,
        creation |-> clock(T),
        expiration |-> IF IsSome(ac.duration.grant)
                       THEN Some(Unwrap(ac.duration.grant) + clock(T1))
                       ELSE None,
        revocation |-> None,
        subject |-> stmt.subject,
        grant |-> grant]

\* After the clock readings of new_grant.
after_new_grant(ac, T) == IF IsSome(ac.duration.grant) THEN Read(Read(T)) ELSE Read(T)

\* The tail of create_grant that returns the grant whatever the put returned.
create_finish_unchecked(p, gr, opt) ==
    Ret(Logged(p.t, info("create", gr, opt)), Ok(gr))

\* The tail of create_grant with the collision line on every failure of the put.
create_finish_any_error(p, gr, opt) ==
    IF ~p.r.ok
    THEN Ret(Logged(p.t, <<"error", "collision">>), p.r)
    ELSE Ret(Logged(p.t, info("create", gr, opt)), Ok(gr))

\* The tail of create_grant: the result of the put is looked at, a collision
\* is logged, and the unhashed grant is returned after the audit line.
create_finish(p, gr, opt) ==
    IF ~p.r.ok
    THEN Ret(IF p.r.e = "TxKeyAlreadyExists"
             THEN Logged(p.t, <<"error", "collision">>)
             ELSE p.t,
             p.r)
    ELSE Ret(Logged(p.t, info("create", gr, opt)), Ok(gr))

\* The hashed copy of the grant put under its key with no ancestor ensured.
create_store_unensured(T, scope, gr, grant, opt) ==
    LET gr_store == [gr EXCEPT !.grant = hashed(grant)]
    IN create_finish(tx_put(T, gr_key(scope, gr.ac, gr.id), gr_store), gr, opt)

\* The hashed copy of the grant put under a key made of its subject.
create_store_by_subject(T, scope, gr, grant, opt) ==
    LET gr_store == [gr EXCEPT !.grant = hashed(grant)]
        e == ensure_ancestors(T, scope, opt.strict)
    IN IF ~e.r.ok THEN Ret(e.t, e.r)
       ELSE create_finish(tx_put(e.t, gr_key(scope, gr.ac, gr.subject.id), gr_store), gr, opt)

\* The hashed copy of the grant is put under its key, the ancestors ensured first.
create_store(T, scope, gr, grant, opt) ==
    LET gr_store == [gr EXCEPT !.grant = hashed(grant)]
        e == ensure_ancestors(T, scope, opt.strict)
    IN IF ~e.r.ok THEN Ret(e.t, e.r)
       ELSE create_finish(tx_put(e.t, gr_key(scope, gr.ac, gr.id), gr_store), gr, opt)

\* create_grant, AccessType::Record, the level looked at before the subject.
create_record_level_first(T, a, stmt, opt, rnd) ==
    IF a.base # "Db" THEN Ret(T, Err("DbEmpty"))
    ELSE IF stmt.subject.variant = "User" THEN Ret(T, Err("AccessGrantInvalidSubject"))
    ELSE IF ~IsSome(a.ac.kind.bearer) THEN Ret(T, Err("AccessMethodMismatch"))
    ELSE LET grant == GrantBearer_new(prefix(Unwrap(a.ac.kind.bearer).kind), rnd.id, rnd.secret)
             gr == new_grant(a.ac, stmt, grant, T)
         IN create_store(after_new_grant(a.ac, T), a.scope, gr, grant, opt)

\* create_grant, AccessType::Record, a method without bearer configuration
\* taken as one configured for plain bearer keys.
create_record_default_bearer(T, a, stmt, opt, rnd) ==
    IF stmt.subject.variant = "User" THEN Ret(T, Err("AccessGrantInvalidSubject"))
    ELSE IF a.base # "Db" THEN Ret(T, Err("DbEmpty"))
    ELSE LET kind == IF IsSome(a.ac.kind.bearer) THEN Unwrap(a.ac.kind.bearer).kind
                     ELSE "Bearer"
             grant == GrantBearer_new(prefix(kind), rnd.id, rnd.secret)
             gr == new_grant(a.ac, stmt, grant, T)
         IN create_store(after_new_grant(a.ac, T), a.scope, gr, grant, opt)

\* create_grant, AccessType::Record
create_record(T, a, stmt, opt, rnd) ==
    IF stmt.subject.variant = "User" THEN Ret(T, Err("AccessGrantInvalidSubject"))
    ELSE IF a.base # "Db" THEN Ret(T, Err("DbEmpty"))
    ELSE IF ~IsSome(a.ac.kind.bearer) THEN Ret(T, Err("AccessMethodMismatch"))
    ELSE LET grant == GrantBearer_new(prefix(Unwrap(a.ac.kind.bearer).kind), rnd.id, rnd.secret)
             gr == new_grant(a.ac, stmt, grant, T)
         IN create_store(after_new_grant(a.ac, T), a.scope, gr, grant, opt)

\* create_grant, AccessType::Bearer, whatever subject the method is configured for.
create_bearer_any_subject(T, a, stmt, opt, rnd) ==
    LET checked ==
            IF stmt.subject.variant = "User"
            THEN tx_get_user(T, a.scope, stmt.subject.id)
            ELSE IF a.base # "Db" THEN [t |-> T, r |-> Err("DbEmpty")]
            ELSE [t |-> T, r |-> Ok("")]
    IN IF ~checked.r.ok THEN Ret(checked.t, checked.r)
       ELSE LET grant == GrantBearer_new(prefix(a.ac.kind.kind), rnd.id, rnd.secret)
                gr == new_grant(a.ac, stmt, grant, checked.t)
            IN create_store(after_new_grant(a.ac, checked.t), a.scope, gr, grant, opt)

\* create_grant, AccessType::Bearer, the user looked up among those of the root.
create_bearer_root_user(T, a, stmt, opt, rnd) ==
    LET checked ==
            IF stmt.subject.variant = "User"
            THEN IF a.ac.kind.subject # "User"
                 THEN [t |-> T, r |-> Err("AccessGrantInvalidSubject")]
                 ELSE tx_get_user(T, ScopeRoot, stmt.subject.id)
            ELSE IF a.base # "Db" THEN [t |-> T, r |-> Err("DbEmpty")]
            ELSE IF a.ac.kind.subject # "Record"
                 THEN [t |-> T, r |-> Err("AccessGrantInvalidSubject")]
            ELSE [t |-> T, r |-> Ok("")]
    IN IF ~checked.r.ok THEN Ret(checked.t, checked.r)
       ELSE LET grant == GrantBearer_new(prefix(a.ac.kind.kind), rnd.id, rnd.secret)
                gr == new_grant(a.ac, stmt, grant, checked.t)
            IN create_store(after_new_grant(a.ac, checked.t), a.scope, gr, grant, opt)

\* create_grant, AccessType::Bearer, the kind of a record subject looked at
\* before the level.
create_bearer_kind_first(T, a, stmt, opt, rnd) ==
    LET checked ==
            IF stmt.subject.variant = "User"
            THEN IF a.ac.kind.subject # "User"
                 THEN [t |-> T, r |-> Err("AccessGrantInvalidSubject")]
                 ELSE tx_get_user(T, a.scope, stmt.subject.id)
            ELSE IF a.ac.kind.subject # "Record"
                 THEN [t |-> T, r |-> Err("AccessGrantInvalidSubject")]
            ELSE IF a.base # "Db" THEN [t |-> T, r |-> Err("DbEmpty")]
            ELSE [t |-> T, r |-> Ok("")]
    IN IF ~checked.r.ok THEN Ret(checked.t, checked.r)
       ELSE LET grant == GrantBearer_new(prefix(a.ac.kind.kind), rnd.id, rnd.secret)
                gr == new_grant(a.ac, stmt, grant, checked.t)
            IN create_store(after_new_grant(a.ac, checked.t), a.scope, gr, grant, opt)

\* create_grant, AccessType::Bearer
create_bearer(T, a, stmt, opt, rnd) ==
    LET checked ==
            IF stmt.subject.variant = "User"
            THEN IF a.ac.kind.subject # "User"
                 THEN [t |-> T, r |-> Err("AccessGrantInvalidSubject")]
                 ELSE tx_get_user(T, a.scope, stmt.subject.id)
            ELSE IF a.base # "Db" THEN [t |-> T, r |-> Err("DbEmpty")]
            ELSE IF a.ac.kind.subject # "Record"
                 THEN [t |-> T, r |-> Err("AccessGrantInvalidSubject")]
            ELSE [t |-> T, r |-> Ok("")]
    IN IF ~checked.r.ok THEN Ret(checked.t, checked.r)
       ELSE LET grant == GrantBearer_new(prefix(a.ac.kind.kind), rnd.id, rnd.secret)
                gr == new_grant(a.ac, stmt, grant, checked.t)
            IN create_store(after_new_grant(a.ac, checked.t), a.scope, gr, grant, opt)

\* create_grant that issues a plain bearer grant for a JWT access method.
create_grant_for_jwt(stmt, opt, T, rnd) ==
    LET a == resolve(T, stmt, opt, "Edit")
    IN IF ~a.r.ok THEN Ret(a.t, a.r)
       ELSE CASE a.r.v.ac.kind.t = "Jwt" ->
                    LET grant == GrantBearer_new(prefix("Bearer"), rnd.id, rnd.secret)
                        gr == new_grant(a.r.v.ac, stmt, grant, a.t)
                    IN create_store(after_new_grant(a.r.v.ac, a.t), a.r.v.scope, gr,
                                    grant, opt)
              [] a.r.v.ac.kind.t = "Record" -> create_record(a.t, a.r.v, stmt, opt, rnd)
              [] a.r.v.ac.kind.t = "Bearer" -> create_bearer(a.t, a.r.v, stmt, opt, rnd)

\* create_grant
create_grant(stmt, opt, T, rnd) ==
    LET a == resolve(T, stmt, opt, "Edit")
    IN IF ~a.r.ok THEN Ret(a.t, a.r)
       ELSE CASE a.r.v.ac.kind.t = "Jwt" -> Ret(a.t, Err("Unimplemented"))
              [] a.r.v.ac.kind.t = "Record" -> create_record(a.t, a.r.v, stmt, opt, rnd)
              [] a.r.v.ac.kind.t = "Bearer" -> create_bearer(a.t, a.r.v, stmt, opt, rnd)

----------------------------------------------------------------------------
(* ACCESS ... SHOW *)

\* The loop of compute_show passing over the grants that are revoked.
RECURSIVE show_loop_unrevoked(_, _, _, _, _)
show_loop_unrevoked(T, grs, n, stmt, show) ==
    IF n > Len(grs) THEN Ret(T, Ok(show))
    ELSE LET gr == grs[n]
             c == IF IsSome(stmt.cond)
                  THEN cond_compute(Unwrap(stmt.cond), ToObject(redacted(gr)))
                  ELSE Ok(TRUE)
         IN IF ~c.ok THEN Ret(T, c)
            ELSE IF ~c.v \/ is_revoked(gr)
            THEN show_loop_unrevoked(T, grs, n + 1, stmt, show)
            ELSE show_loop_unrevoked(T, grs, n + 1, stmt,
                                     Append(show, ToObject(redacted(gr))))

\* The loop of compute_show over the scanned grants, from the n-th on.
RECURSIVE show_loop(_, _, _, _, _)
show_loop(T, grs, n, stmt, show) ==
    IF n > Len(grs) THEN Ret(T, Ok(show))
    ELSE LET gr == grs[n]
             c == IF IsSome(stmt.cond)
                  THEN cond_compute(Unwrap(stmt.cond), ToObject(redacted(gr)))
                  ELSE Ok(TRUE)
         IN IF ~c.ok THEN Ret(T, c)
            ELSE IF ~c.v THEN show_loop(T, grs, n + 1, stmt, show)
            ELSE show_loop(T, grs, n + 1, stmt, Append(show, ToObject(redacted(gr))))

\* compute_show storing the redacted form of the grant it shows by identifier.
compute_show_storing(stmt, opt, T) ==
    LET a == resolve(T, stmt, opt, "View")
    IN IF ~a.r.ok THEN Ret(a.t, a.r)
       ELSE IF IsSome(stmt.gr)
       THEN LET k == gr_key(a.r.v.scope, stmt.ac, Unwrap(stmt.gr))
                g == tx_get_grant(a.t, k)
            IN IF ~g.r.ok THEN Ret(g.t, g.r)
               ELSE Ret(tx_set(g.t, k, redacted(g.r.v)).t, Ok(ToObject(redacted(g.r.v))))
       ELSE LET grs == tx_all_grants(a.t, a.r.v.scope, stmt.ac)
            IN show_loop(grs.t, grs.r.v, 1, stmt, <<>>)

\* compute_show returning nothing for an identifier that is not stored.
compute_show_soft(stmt, opt, T) ==
    LET a == resolve(T, stmt, opt, "View")
    IN IF ~a.r.ok THEN Ret(a.t, a.r)
       ELSE IF IsSome(stmt.gr)
       THEN LET g == tx_get_grant(a.t, gr_key(a.r.v.scope, stmt.ac, Unwrap(stmt.gr)))
            IN IF ~g.r.ok THEN Ret(g.t, Ok(<<>>))
               ELSE Ret(g.t, Ok(ToObject(redacted(g.r.v))))
       ELSE LET grs == tx_all_grants(a.t, a.r.v.scope, stmt.ac)
            IN show_loop(grs.t, grs.r.v, 1, stmt, <<>>)

\* compute_show
compute_show(stmt, opt, T) ==
    LET a == resolve(T, stmt, opt, "View")
    IN IF ~a.r.ok THEN Ret(a.t, a.r)
       ELSE IF IsSome(stmt.gr)
       THEN LET g == tx_get_grant(a.t, gr_key(a.r.v.scope, stmt.ac, Unwrap(stmt.gr)))
            IN IF ~g.r.ok THEN Ret(g.t, g.r)
               ELSE Ret(g.t, Ok(ToObject(redacted(g.r.v))))
       ELSE LET grs == tx_all_grants(a.t, a.r.v.scope, stmt.ac)
            IN show_loop(grs.t, grs.r.v, 1, stmt, <<>>)

----------------------------------------------------------------------------
(* ACCESS ... REVOKE *)

\* A write-back that stores the revoked grant without its expiration time.
revoke_write_unexpiring(T, scope, ac, id, gr, opt) ==
    LET e == ensure_ancestors(T, scope, opt.strict)
    IN IF ~e.r.ok THEN e
       ELSE tx_set(e.t, gr_key(scope, ac, id), [gr EXCEPT !.expiration = None])

\* A write-back with put, which inserts and fails on a key that is present.
revoke_write_insert(T, scope, ac, id, gr, opt) ==
    LET e == ensure_ancestors(T, scope, opt.strict)
    IN IF ~e.r.ok THEN e ELSE tx_put(e.t, gr_key(scope, ac, id), gr)

\* A write-back under the key of the database, whatever the level.
revoke_write_db_level(T, scope, ac, id, gr, opt) ==
    LET e == ensure_ancestors(T, scope, opt.strict)
    IN IF ~e.r.ok THEN e ELSE tx_set(e.t, gr_key(ScopeDb, ac, id), gr)

\* The write-back of a revoked grant: ancestors ensured, then an overwrite.
revoke_write(T, scope, ac, id, gr, opt) ==
    LET e == ensure_ancestors(T, scope, opt.strict)
    IN IF ~e.r.ok THEN e ELSE tx_set(e.t, gr_key(scope, ac, id), gr)

\* revoke_single without its check that the grant is not revoked yet.
revoke_single_unchecked(T, a, stmt, opt) ==
    LET g == tx_get_grant(T, gr_key(a.scope, stmt.ac, Unwrap(stmt.gr)))
    IN IF ~g.r.ok THEN Ret(g.t, g.r)
       ELSE LET revoke == [g.r.v EXCEPT !.revocation = Some(clock(g.t))]
                w == revoke_write(Read(g.t), a.scope, stmt.ac, Unwrap(stmt.gr), revoke, opt)
            IN IF ~w.r.ok THEN Ret(w.t, w.r)
               ELSE Ret(Logged(w.t, info("revoke", revoke, opt)),
                        Ok(<<ToObject(redacted(revoke))>>))

\* revoke_single taking a revoked grant for done: nothing written, nothing returned.
revoke_single_idempotent(T, a, stmt, opt) ==
    LET g == tx_get_grant(T, gr_key(a.scope, stmt.ac, Unwrap(stmt.gr)))
    IN IF ~g.r.ok THEN Ret(g.t, g.r)
       ELSE IF IsSome(g.r.v.revocation) THEN Ret(g.t, Ok(<<>>))
       ELSE LET revoke == [g.r.v EXCEPT !.revocation = Some(clock(g.t))]
                w == revoke_write(Read(g.t), a.scope, stmt.ac, Unwrap(stmt.gr), revoke, opt)
            IN IF ~w.r.ok THEN Ret(w.t, w.r)
               ELSE Ret(Logged(w.t, info("revoke", revoke, opt)),
                        Ok(<<ToObject(redacted(revoke))>>))

\* revoke_single putting the statement's condition to the fetched grant.
revoke_single_filtered(T, a, stmt, opt) ==
    LET g == tx_get_grant(T, gr_key(a.scope, stmt.ac, Unwrap(stmt.gr)))
    IN IF ~g.r.ok THEN Ret(g.t, g.r)
       ELSE IF IsSome(g.r.v.revocation) THEN Ret(g.t, Err("AccessGrantRevoked"))
       ELSE LET m == IF IsSome(stmt.cond)
                     THEN cond_compute(Unwrap(stmt.cond), ToObject(redacted(g.r.v)))
                     ELSE Ok(TRUE)
            IN IF ~m.ok THEN Ret(g.t, m)
               ELSE IF ~m.v THEN Ret(g.t, Ok(<<>>))
               ELSE LET revoke == [g.r.v EXCEPT !.revocation = Some(clock(g.t))]
                        w == revoke_write(Read(g.t), a.scope, stmt.ac, Unwrap(stmt.gr),
                                          revoke, opt)
                    IN IF ~w.r.ok THEN Ret(w.t, w.r)
                       ELSE Ret(Logged(w.t, info("revoke", revoke, opt)),
                                Ok(<<ToObject(redacted(revoke))>>))

\* revoke_grant with a grant identifier
revoke_single(T, a, stmt, opt) ==
    LET g == tx_get_grant(T, gr_key(a.scope, stmt.ac, Unwrap(stmt.gr)))
    IN IF ~g.r.ok THEN Ret(g.t, g.r)
       ELSE IF IsSome(g.r.v.revocation) THEN Ret(g.t, Err("AccessGrantRevoked"))
       ELSE LET revoke == [g.r.v EXCEPT !.revocation = Some(clock(g.t))]
                w == revoke_write(Read(g.t), a.scope, stmt.ac, Unwrap(stmt.gr), revoke, opt)
            IN IF ~w.r.ok THEN Ret(w.t, w.r)
               ELSE Ret(Logged(w.t, info("revoke", revoke, opt)),
                        Ok(<<ToObject(redacted(revoke))>>))

\* A revocation time never counts as set.
already_revoked_never(gr) == FALSE

\* revoke_grant's test for a grant that is revoked already and is passed over.
already_revoked(gr) == IsSome(gr.revocation)

\* Every unrevoked grant matches, whatever the condition.
revoke_matches_all(stmt, gr) == Ok(TRUE)

\* The statement's condition computed on the grant as it is stored.
revoke_matches_unredacted(stmt, gr) ==
    IF IsSome(stmt.cond)
    THEN cond_compute(Unwrap(stmt.cond), ToObject(gr))
    ELSE Ok(TRUE)

\* A test of the condition that takes a failure of the evaluator for falsy.
revoke_matches_lenient(stmt, gr) ==
    IF IsSome(stmt.cond)
    THEN LET c == cond_compute(Unwrap(stmt.cond), ToObject(redacted(gr)))
         IN IF c.ok THEN c ELSE Ok(FALSE)
    ELSE Ok(TRUE)

\* revoke_grant's test of the statement's condition, on the redacted grant.
revoke_matches(stmt, gr) ==
    IF IsSome(stmt.cond)
    THEN cond_compute(Unwrap(stmt.cond), ToObject(redacted(gr)))
    ELSE Ok(TRUE)

\* The loop of revoke_grant over the scanned grants, from the n-th on.
RECURSIVE revoke_loop(_, _, _, _, _, _, _)
revoke_loop(T, grs, n, a, stmt, opt, revoked) ==
    IF n > Len(grs) THEN Ret(T, Ok(revoked))
    ELSE IF already_revoked(grs[n])
    THEN revoke_loop(T, grs, n + 1, a, stmt, opt, revoked)
    ELSE LET c == revoke_matches(stmt, grs[n])
         IN IF ~c.ok THEN Ret(T, c)
            ELSE IF ~c.v THEN revoke_loop(T, grs, n + 1, a, stmt, opt, revoked)
            ELSE LET gr == [grs[n] EXCEPT !.revocation = Some(clock(T))]
                     w == revoke_write(Read(T), a.scope, stmt.ac, gr.id, gr, opt)
                 IN IF ~w.r.ok THEN Ret(w.t, w.r)
                    ELSE revoke_loop(Logged(w.t, info("revoke", gr, opt)), grs, n + 1,
                                     a, stmt, opt,
                                     Append(revoked, ToObject(redacted(gr))))

\* revoke_grant
revoke_grant(stmt, opt, T) ==
    LET a == resolve(T, stmt, opt, "Edit")
    IN IF ~a.r.ok THEN Ret(a.t, a.r)
       ELSE IF IsSome(stmt.gr) THEN revoke_single(a.t, a.r.v, stmt, opt)
       ELSE LET grs == tx_all_grants(a.t, a.r.v.scope, stmt.ac)
            IN revoke_loop(grs.t, grs.r.v, 1, a.r.v, stmt, opt, <<>>)

----------------------------------------------------------------------------
(* ACCESS ... PURGE *)

\* The seconds from t to the reading `at` of the clock, as compute_purge
\* takes them: the difference of the two timestamps, converted to u64.
elapsed_secs(at, t) == as_u64(saturating_sub(timestamp(at), timestamp(t)))

\* purge_expired without the test that the expiration is not after the clock.
purge_expired_unguarded(stmt, gr, at) ==
    /\ stmt.expired
    /\ IsSome(gr.expiration)
    /\ u64_gt(elapsed_secs(at, Unwrap(gr.expiration)), as_u64(secs(stmt.grace)))

\* purge_expired purging from the very second the grace period ends.
purge_expired_at_grace(stmt, gr, at) ==
    /\ stmt.expired
    /\ IsSome(gr.expiration)
    /\ timestamp(at) >= timestamp(Unwrap(gr.expiration))
    /\ ~u64_gt(as_u64(secs(stmt.grace)), elapsed_secs(at, Unwrap(gr.expiration)))

\* purge_expired with the grace period left out of the comparison.
purge_expired_no_grace(stmt, gr, at) ==
    /\ stmt.expired
    /\ IsSome(gr.expiration)
    /\ timestamp(at) >= timestamp(Unwrap(gr.expiration))
    /\ u64_gt(elapsed_secs(at, Unwrap(gr.expiration)), U64Zero)

\* purge_expired of compute_purge, at the reading `at` of the clock
purge_expired(stmt, gr, at) ==
    /\ stmt.expired
    /\ IsSome(gr.expiration)
    /\ timestamp(at) >= timestamp(Unwrap(gr.expiration))
    /\ u64_gt(elapsed_secs(at, Unwrap(gr.expiration)), as_u64(secs(stmt.grace)))

\* purge_revoked whatever the REVOKED flag of the statement.
purge_revoked_unflagged(stmt, gr, at) ==
    /\ IsSome(gr.revocation)
    /\ timestamp(at) >= timestamp(Unwrap(gr.revocation))
    /\ u64_gt(elapsed_secs(at, Unwrap(gr.revocation)), as_u64(secs(stmt.grace)))

\* purge_revoked of compute_purge, at the reading `at` of the clock
purge_revoked(stmt, gr, at) ==
    /\ stmt.revoked
    /\ IsSome(gr.revocation)
    /\ timestamp(at) >= timestamp(Unwrap(gr.revocation))
    /\ u64_gt(elapsed_secs(at, Unwrap(gr.revocation)), as_u64(secs(stmt.grace)))

\* The purged grant put in front of the result.
purged_add_front(purged, gr) == <<ToObject(redacted(gr))>> \o purged

\* purged + Value::Object(gr.redacted().clone().into())
purged_add(purged, gr) == Append(purged, ToObject(redacted(gr)))

\* The loop of compute_purge with the audit line written before the delete.
RECURSIVE purge_loop_log_first(_, _, _, _, _, _, _)
purge_loop_log_first(T, grs, n, a, stmt, opt, purged) ==
    IF n > Len(grs) THEN Ret(T, Ok(purged))
    ELSE LET gr == grs[n]
             at == clock(T)
             T1 == Read(T)
         IN IF purge_expired(stmt, gr, at) \/ purge_revoked(stmt, gr, at)
            THEN LET d == tx_del(Logged(T1, info("purge", gr, opt)),
                                 gr_key(a.scope, stmt.ac, gr.id))
                 IN IF ~d.r.ok THEN Ret(d.t, d.r)
                    ELSE purge_loop_log_first(d.t, grs, n + 1, a, stmt, opt,
                                              purged_add(purged, gr))
            ELSE purge_loop_log_first(T1, grs, n + 1, a, stmt, opt, purged)

\* The loop of compute_purge over the scanned grants, from the n-th on.
RECURSIVE purge_loop(_, _, _, _, _, _, _)
purge_loop(T, grs, n, a, stmt, opt, purged) ==
    IF n > Len(grs) THEN Ret(T, Ok(purged))
    ELSE LET gr == grs[n]
             at == clock(T)
             T1 == Read(T)
         IN IF purge_expired(stmt, gr, at) \/ purge_revoked(stmt, gr, at)
            THEN LET d == tx_del(T1, gr_key(a.scope, stmt.ac, gr.id))
                 IN IF ~d.r.ok THEN Ret(d.t, d.r)
                    ELSE purge_loop(Logged(d.t, info("purge", gr, opt)), grs, n + 1,
                                    a, stmt, opt, purged_add(purged, gr))
            ELSE purge_loop(T1, grs, n + 1, a, stmt, opt, purged)

\* compute_purge
compute_purge(stmt, opt, T) ==
    LET a == resolve(T, stmt, opt, "Edit")
    IN IF ~a.r.ok THEN Ret(a.t, a.r)
       ELSE LET grs == tx_all_grants(a.t, a.r.v.scope, stmt.ac)
            IN purge_loop(grs.t, grs.r.v, 1, a.r.v, stmt, opt, <<>>)

----------------------------------------------------------------------------
(* The statements as steps of the system. *)

\* The step of a statement: what it left behind becomes the state, and the
\* clock stands at the last reading the statement took.
Apply(o, clk, ret) ==
    LET r == ret
    IN /\ op' = o
       /\ out' = r.out
       /\ store' = r.store
       /\ defs' = r.defs
       /\ calls' = r.calls
       /\ log' = r.log
       /\ now' = IF Len(r.clk) = Len(clk) THEN now ELSE clk[Len(clk) - Len(r.clk)]
       /\ pending' = pending

Grant(stmt, opt, rnd, clk, fault) ==
    Apply([name |-> "Grant", stmt |-> stmt, opt |-> opt, rnd |-> rnd, fault |-> fault],
          clk, create_grant(stmt, opt, Txn(store, defs, clk, fault), rnd))

Show(stmt, opt, clk) ==
    Apply([name |-> "Show", stmt |-> stmt, opt |-> opt, fault |-> 0],
          clk, compute_show(stmt, opt, Txn(store, defs, clk, 0)))

Revoke(stmt, opt, clk, fault) ==
    Apply([name |-> "Revoke", stmt |-> stmt, opt |-> opt, fault |-> fault],
          clk, revoke_grant(stmt, opt, Txn(store, defs, clk, fault)))

Purge(stmt, opt, clk, fault) ==
    Apply([name |-> "Purge", stmt |-> stmt, opt |-> opt, fault |-> fault],
          clk, compute_purge(stmt, opt, Txn(store, defs, clk, fault)))

\* Time passes between statements.
Tick ==
    /\ now < MaxTime
    /\ now' = now + 1
    /\ op' = [name |-> "Tick"]
    /\ out' = Ok("")
    /\ calls' = <<>>
    /\ log' = <<>>
    /\ UNCHANGED <<store, defs, pending>>

----------------------------------------------------------------------------
(* The lifecycle specification: sessions on one database issue GRANT, SHOW, *)
(* REVOKE and PURGE statements for the access method "api" of the database. *)

\* The store fails at most the MaxFault-th write call of a statement.
MaxFault == 1
Faults == 0..MaxFault

AllActions == {"View", "Edit"} \X {"Root", "Ns", "Db"}

Owner ==
    [ns |-> Some("n1"), db |-> Some("d1"), strict |-> FALSE,
     auth |-> [id |-> "owner", allowed |-> AllActions]]
Viewer ==
    [ns |-> Some("n1"), db |-> Some("d1"), strict |-> FALSE,
     auth |-> [id |-> "viewer", allowed |-> {"View"} \X {"Root", "Ns", "Db"}]]

Sessions == {Owner, Viewer}

User(name) == [variant |-> "User", id |-> name]
Record(rid) == [variant |-> "Record", id |-> rid]

\* A clock that stands still during a statement, and one that ticks between
\* its first and its second reading.
Steady(t) == [i \in 1..Len(IdOrder) |-> t]
Drift(t) == [i \in 1..Len(IdOrder) |-> IF i = 1 THEN t ELSE t + 1]
Clocks(t) == IF t < MaxTime THEN {Steady(t), Drift(t)} ELSE {Steady(t)}

Api(fields) == [ac |-> "api", base |-> None] @@ fields

\* GRANT: either key identifier may be drawn, so that identifiers collide.
GrantInputs ==
    {[stmt |-> Api([subject |-> User("tobie")]), opt |-> o,
      rnd |-> [id |-> i, secret |-> "s1"], fault |-> 0] :
        o \in {Owner}, i \in {"k1", "k2"}}
    \cup {[stmt |-> Api([subject |-> User("tobie")]), opt |-> Viewer,
           rnd |-> [id |-> "k1", secret |-> "s1"], fault |-> 0]}

CondId == [t |-> "id", v |-> "k1"]
CondThrow == [t |-> "throw_on_id", v |-> "k2"]

ShowInputs ==
    {[stmt |-> Api([gr |-> g, cond |-> c]), opt |-> Viewer] :
        g \in {None, Some("k1")}, c \in {None, Some(CondId)}}

RevokeInputs ==
    {[stmt |-> Api([gr |-> g, cond |-> None]), opt |-> Owner, fault |-> 0] :
        g \in {None, Some("k1"), Some("k2")}}
    \cup {[stmt |-> Api([gr |-> None, cond |-> Some(c)]), opt |-> Owner, fault |-> 0] :
            c \in {CondId, CondThrow}}
    \cup {[stmt |-> Api([gr |-> None, cond |-> None]), opt |-> Owner, fault |-> f] :
            f \in Faults}
    \cup {[stmt |-> Api([gr |-> Some("k1"), cond |-> None]), opt |-> Viewer, fault |-> 0]}

Graces == {g * TicksPerSec : g \in 0..MaxGrace}

PurgeInputs ==
    {[stmt |-> Api([expired |-> e, revoked |-> r, grace |-> g]), opt |-> Owner,
      fault |-> 0] : e \in BOOLEAN, r \in BOOLEAN, g \in Graces}
    \cup {[stmt |-> Api([expired |-> TRUE, revoked |-> TRUE, grace |-> 0]), opt |-> o,
           fault |-> f] : o \in Sessions, f \in Faults}

Init ==
    /\ store = <<>>
    /\ defs = {<<"ns", "n1">>, ScopeDb}
    /\ now = 0
    /\ op = [name |-> "Init"]
    /\ out = Ok("")
    /\ calls = <<>>
    /\ log = <<>>
    /\ pending = <<>>

Next ==
    \/ \E i \in GrantInputs : Grant(i.stmt, i.opt, i.rnd, Steady(now), i.fault)
    \/ \E i \in ShowInputs : Show(i.stmt, i.opt, Steady(now))
    \/ \E i \in RevokeInputs : Revoke(i.stmt, i.opt, Steady(now), i.fault)
    \/ \E i \in PurgeInputs : Purge(i.stmt, i.opt, Steady(now), i.fault)
    \/ Tick

Spec == Init /\ [][Next]_vars

----------------------------------------------------------------------------
(* The purge specification: PURGE statements on stores of grants whose      *)
(* expiration and revocation times lie anywhere around the clock, before it *)
(* and after it, as earlier statements leave them when the wall clock has   *)
(* been set back or the grant duration of the access method has changed.    *)

\* Times of the purge specification range over 0..PurgeHorizon ticks.
PurgeHorizon == 4

\* A grant of access method "api" as create_grant stores it.
StoredGrant(id, exp, rev) ==
    [id |-> id, ac |-> "api", creation |-> 0, expiration |-> exp, revocation |-> rev,
     subject |-> User("tobie"),
     grant |-> hashed(GrantBearer_new(prefix("Bearer"), id, "s1"))]

\* The store that holds the grants gs under the database's access method.
StoreOf(gs) ==
    [k \in {gr_key(ScopeDb, g.ac, g.id) : g \in gs} |->
        CHOOSE g \in gs : gr_key(ScopeDb, g.ac, g.id) = k]

OptionalTimes == {None} \cup {Some(t) : t \in 0..PurgeHorizon}

\* Stores of up to two grants: the first with any expiration and revocation
\* times, the second absent, without times, expired or revoked at time 0, or
\* with both times at the horizon.
PairStores ==
    LET profiles == {"absent"} \cup (OptionalTimes \X OptionalTimes)
        few == {"absent", <<None, None>>, <<Some(0), None>>, <<None, Some(0)>>,
                <<Some(PurgeHorizon), Some(PurgeHorizon)>>}
        grants(id, pr) == IF pr = "absent" THEN {} ELSE {StoredGrant(id, pr[1], pr[2])}
    IN {StoreOf(grants("k1", p1) \cup grants("k2", p2)) : p1 \in profiles, p2 \in few}

\* Stores of three grants at time t: an active one, one expired and one
\* revoked a whole number of seconds before t.
TrioStores(t) ==
    {StoreOf({StoredGrant("k1", e1, None),
              StoredGrant("k2", Some(t - d * TicksPerSec), None),
              StoredGrant("k3", None, Some(t - d * TicksPerSec))}) :
        e1 \in {None, Some(t + 1)}, d \in 1..(t \div TicksPerSec)}

InitPurge ==
    /\ now \in 0..PurgeHorizon
    /\ store \in PairStores \cup TrioStores(now)
    /\ defs = {<<"ns", "n1">>, ScopeDb}
    /\ op = [name |-> "Init"]
    /\ out = Ok("")
    /\ calls = <<>>
    /\ log = <<>>
    /\ pending = <<>>

NextPurge == \E i \in PurgeInputs : Purge(i.stmt, i.opt, Steady(now), i.fault)

SpecPurge == InitPurge /\ [][NextPurge]_vars

----------------------------------------------------------------------------
(* The create specification: GRANT statements on every access method of the *)
(* catalog and on one it lacks, at every level, for a user that exists, a   *)
(* user that does not and a record, from sessions with and without the      *)
(* right to edit, the namespace and database defined or not.                *)

\* The store of the create specification holds at most MaxGrants grants.
MaxGrants == 2

\* A session that edits under strict mode.
Strict == [Owner EXCEPT !.strict = TRUE]

\* A session with a namespace selected and no database.
NsOnly == [Owner EXCEPT !.db = None]

Methods == {"api", "rapi", "rec", "recnb", "tok", "nope"}
Bases == {None, Some("Root"), Some("Ns"), Some("Db")}
Subjects == {User("tobie"), User("jaime"), Record("r1")}

CreateInputs ==
    {[stmt |-> [ac |-> m, base |-> b, subject |-> s], opt |-> Owner,
      rnd |-> [id |-> "k1", secret |-> "s1"], fault |-> 0] :
        m \in Methods, b \in Bases, s \in Subjects}
    \cup {[stmt |-> [ac |-> m, base |-> None, subject |-> s], opt |-> Owner,
           rnd |-> [id |-> i, secret |-> "s1"], fault |-> f] :
            m \in {"api", "rec"}, s \in {User("tobie"), Record("r1")},
            i \in {"k1", "k2"}, f \in Faults}
    \cup {[stmt |-> [ac |-> "api", base |-> None, subject |-> User("tobie")], opt |-> o,
           rnd |-> [id |-> "k1", secret |-> "s1"], fault |-> 0] :
            o \in {Viewer, Strict, NsOnly}}

InitCreate ==
    /\ store = <<>>
    /\ defs \in {{}, {<<"ns", "n1">>, ScopeDb}}
    /\ now = 0
    /\ op = [name |-> "Init"]
    /\ out = Ok("")
    /\ calls = <<>>
    /\ log = <<>>
    /\ pending = <<>>

NextCreate ==
    /\ Cardinality(DOMAIN store) < MaxGrants
    /\ \E i \in CreateInputs : Grant(i.stmt, i.opt, i.rnd, Steady(now), i.fault)

SpecCreate == InitCreate /\ [][NextCreate]_vars

----------------------------------------------------------------------------
(* The filter specification: SHOW and REVOKE statements without a grant     *)
(* identifier, with conditions on the identifier and on the key of a grant, *)
(* on stores of up to two grants, revoked or not.                           *)

\* WHERE grant.key = v
CondKey(v) == [t |-> "key", v |-> v]

\* The hash under which the grant with identifier id and secret is stored.
StoredKey(id, secret) == hashed(GrantBearer_new(prefix("Bearer"), id, secret)).key

FilterConds ==
    {None, Some(CondId), Some(CondKey(StoredKey("k1", "s1"))),
     Some(CondKey(GrantBearer_new(prefix("Bearer"), "k2", "s1").key)),
     Some(CondKey(REDACTED))}

FilterStores ==
    LET profiles == {"absent", None, Some(0)}
        grants(id, pr) == IF pr = "absent" THEN {} ELSE {StoredGrant(id, None, pr)}
    IN {StoreOf(grants("k1", p1) \cup grants("k2", p2)) : p1 \in profiles, p2 \in profiles}

InitFilter ==
    /\ store \in FilterStores
    /\ defs = {<<"ns", "n1">>, ScopeDb}
    /\ now \in 0..1
    /\ op = [name |-> "Init"]
    /\ out = Ok("")
    /\ calls = <<>>
    /\ log = <<>>
    /\ pending = <<>>

\* The statement without a grant identifier, for each condition.
FilterInputs == [c \in FilterConds |-> Api([gr |-> None, cond |-> c])]

NextFilter ==
    \/ \E c \in FilterConds : Show(FilterInputs[c], Viewer, Steady(now))
    \/ \E c \in FilterConds, f \in Faults : Revoke(FilterInputs[c], Owner, Steady(now), f)

SpecFilter == InitFilter /\ [][NextFilter]_vars

----------------------------------------------------------------------------
(* Vocabulary of the properties. *)

\* The write calls among the calls of a statement.
WriteCalls(cs) == SelectSeq(cs, LAMBDA c : c[1] \in {"put", "set", "del", "get_or_add"})

\* Where statement o gets to in the state it is issued in: the base, scope
\* and access method it resolves, or the error that ends it before.
Resolved(o, action) == resolve(Txn(store, defs, <<>>, 0), o.stmt, o.opt, action).r

\* The keys of the grants stored under an access method of a scope.
GrantKeys(st, scope, ac) == {gr_key(scope, ac, IdOrder[n]) : n \in 1..Len(IdOrder)} \cap DOMAIN st

\* The elements of a sequence.
Range(seq) == {seq[n] : n \in 1..Len(seq)}

IsBulkRevoke(o) == o.name = "Revoke" /\ ~IsSome(o.stmt.gr)
IsSingleRevoke(o) == o.name = "Revoke" /\ IsSome(o.stmt.gr)

----------------------------------------------------------------------------
(* Properties of the lifecycle specification. *)

\* C1: over every sequence of GRANT, SHOW, REVOKE (with an identifier or
\* without) and PURGE statements, a revocation time that is set on a stored
\* grant stays what it is for as long as the grant stays in the store: no
\* step changes it or clears it.
C1_RevocationSetOnce ==
    [][\A k \in DOMAIN store \cap DOMAIN store' :
          IsSome(store[k].revocation) => store'[k].revocation = store[k].revocation]_vars

\* C1 witness: a REVOKE statement has succeeded while the store holds a grant
\* revoked at an earlier time.
C1_Witness ==
    /\ op.name = "Revoke"
    /\ out.ok
    /\ \E k \in DOMAIN store :
          IsSome(store[k].revocation) /\ Unwrap(store[k].revocation) < now

\* C2: REVOKE GRANT <id> on a grant that is already revoked fails with
\* AccessGrantRevoked, issues no write call and leaves the store as it was.
C2_RevokeRevokedFails ==
    [][(/\ IsSingleRevoke(op')
        /\ Resolved(op', "Edit").ok
        /\ LET k == gr_key(Resolved(op', "Edit").v.scope, op'.stmt.ac, Unwrap(op'.stmt.gr))
           IN k \in DOMAIN store /\ IsSome(store[k].revocation))
       => (/\ out' = Err("AccessGrantRevoked")
           /\ WriteCalls(calls') = <<>>
           /\ store' = store)]_vars

\* C2 witness: a REVOKE GRANT <id> has failed with AccessGrantRevoked on a
\* stored, revoked grant.
C2_Witness ==
    /\ IsSingleRevoke(op)
    /\ out = Err("AccessGrantRevoked")
    /\ \E k \in DOMAIN store : store[k].id = Unwrap(op.stmt.gr) /\ IsSome(store[k].revocation)

\* C3: REVOKE without an identifier never fails because a grant is revoked
\* already: such a grant is passed over, it stays in the store as it is and
\* it is not in the result; and a second identical REVOKE right after a
\* successful one returns the empty collection and changes nothing.
C3_BulkRevokeSkipsRevoked ==
    [][(IsBulkRevoke(op') /\ Resolved(op', "Edit").ok)
       => LET a == Resolved(op', "Edit").v
              ks == GrantKeys(store, a.scope, op'.stmt.ac)
          IN /\ out' # Err("AccessGrantRevoked")
             /\ \A k \in ks :
                   IsSome(store[k].revocation)
                   => /\ k \in DOMAIN store'
                      /\ store'[k] = store[k]
                      /\ out'.ok => \A n \in 1..Len(out'.v) : out'.v[n].id # store[k].id
             /\ (IsBulkRevoke(op) /\ op.stmt = op'.stmt /\ op.opt = op'.opt /\ out.ok)
                => (out' = Ok(<<>>) /\ store' = store)]_vars

\* C3 witness: a REVOKE without an identifier has succeeded with an empty
\* result over an access method that holds a grant revoked earlier.
C3_Witness ==
    /\ IsBulkRevoke(op)
    /\ out = Ok(<<>>)
    /\ \E k \in GrantKeys(store, ScopeDb, op.stmt.ac) :
          IsSome(store[k].revocation) /\ Unwrap(store[k].revocation) < now

\* The unrevoked grants of the access method for which the condition of the
\* statement is truthy on the redacted grant (all of them without condition).
Matching(st, ks, stmt) ==
    {k \in ks :
        /\ ~IsSome(st[k].revocation)
        /\ \/ ~IsSome(stmt.cond)
           \/ cond_compute(Unwrap(stmt.cond), ToObject(redacted(st[k]))) = Ok(TRUE)}

\* C4: after a successful REVOKE without an identifier, exactly the scanned
\* grants that were unrevoked and matched the condition carry the current
\* time as revocation time in the store and make up, redacted, the result;
\* every other grant of the access method is stored as it was.
C4_BulkRevokeExact ==
    [][(IsBulkRevoke(op') /\ out'.ok)
       => LET a == Resolved(op', "Edit").v
              ks == GrantKeys(store, a.scope, op'.stmt.ac)
              m == Matching(store, ks, op'.stmt)
          IN /\ ks \subseteq DOMAIN store'
             /\ \A k \in m : store'[k] = [store[k] EXCEPT !.revocation = Some(now)]
             /\ \A k \in ks \ m : store'[k] = store[k]
             /\ Range(out'.v) = {ToObject(redacted(store'[k])) : k \in m}
             /\ Len(out'.v) = Cardinality(m)]_vars

\* C4 witness: a conditional REVOKE has revoked one grant and left another,
\* unrevoked one in the store.
C4_Witness ==
    /\ IsBulkRevoke(op)
    /\ IsSome(op.stmt.cond)
    /\ out.ok
    /\ Len(out.v) = 1
    /\ \E k \in GrantKeys(store, ScopeDb, op.stmt.ac) : ~IsSome(store[k].revocation)

----------------------------------------------------------------------------
(* Properties of the purge specification. *)

\* The eligibility rule of PURGE in whole seconds: n the second of the
\* clock, e and r the seconds of expiration and revocation, g the grace.
Eligible(stmt, gr, t) ==
    LET n == timestamp(t)
        g == secs(stmt.grace)
    IN \/ /\ stmt.expired
          /\ IsSome(gr.expiration)
          /\ n >= timestamp(Unwrap(gr.expiration))
          /\ n - timestamp(Unwrap(gr.expiration)) > g
       \/ /\ stmt.revoked
          /\ IsSome(gr.revocation)
          /\ n >= timestamp(Unwrap(gr.revocation))
          /\ n - timestamp(Unwrap(gr.revocation)) > g

\* Three grants: one active, one expired and one revoked at least a second ago.
IsTrio(st, t) ==
    /\ Cardinality(DOMAIN st) = 3
    /\ \E ka, ke, kr \in DOMAIN st :
          /\ DOMAIN st = {ka, ke, kr}
          /\ is_active(st[ka], t)
          /\ IsSome(st[ke].expiration) /\ ~IsSome(st[ke].revocation)
          /\ t - Unwrap(st[ke].expiration) >= TicksPerSec
          /\ IsSome(st[kr].revocation) /\ ~IsSome(st[kr].expiration)
          /\ t - Unwrap(st[kr].revocation) >= TicksPerSec

\* C6 as stated, on the times themselves: a successful PURGE deletes a grant
\* of the access method if and only if (EXPIRED is set, the grant has an
\* expiration e, now >= e and now - e > grace) or (REVOKED is set, the grant
\* has a revocation r, now >= r and now - r > grace).
C6_PurgeIffElapsed ==
    [][(op'.name = "Purge" /\ out'.ok)
       => LET a == Resolved(op', "Edit").v
              ks == GrantKeys(store, a.scope, op'.stmt.ac)
              past(o) == /\ IsSome(o)
                         /\ now >= Unwrap(o)
                         /\ now - Unwrap(o) > op'.stmt.grace
          IN \A k \in ks :
                (k \notin DOMAIN store')
                <=> \/ op'.stmt.expired /\ past(store[k].expiration)
                    \/ op'.stmt.revoked /\ past(store[k].revocation)]_vars

\* C6, amended: a successful PURGE deletes a grant of the access method if
\* and only if (EXPIRED is set, the grant has an expiration e, now >= e and
\* now - e > grace) or (REVOKED is set, the grant has a revocation r,
\* now >= r and now - r > grace), where now, e and r are taken in whole
\* seconds, the fraction of a second dropped. With neither flag nothing is
\* deleted; and PURGE EXPIRED with no grace over an active grant, a grant
\* expired and a grant revoked some seconds ago deletes exactly the expired
\* one.
C6_PurgeIffEligible ==
    [][(op'.name = "Purge" /\ out'.ok)
       => LET a == Resolved(op', "Edit").v
              ks == GrantKeys(store, a.scope, op'.stmt.ac)
          IN /\ \A k \in ks : (k \notin DOMAIN store') <=> Eligible(op'.stmt, store[k], now)
             /\ (~op'.stmt.expired /\ ~op'.stmt.revoked) => store' = store
             /\ (/\ IsTrio(store, now)
                 /\ op'.stmt.expired /\ ~op'.stmt.revoked /\ op'.stmt.grace = 0)
                => \E k \in ks :
                      /\ DOMAIN store' = DOMAIN store \ {k}
                      /\ is_expired(store[k], now) /\ ~is_revoked(store[k])]_vars

\* C6 witness: PURGE EXPIRED with no grace has returned one grant, the
\* expired one, and an active grant and a revoked grant are still stored.
C6_Witness ==
    /\ op.name = "Purge" /\ out.ok
    /\ op.stmt.expired /\ ~op.stmt.revoked /\ op.stmt.grace = 0
    /\ Len(out.v) = 1
    /\ IsSome(out.v[1].expiration) /\ Unwrap(out.v[1].expiration) < now
    /\ \E ka, kr \in DOMAIN store :
          /\ DOMAIN store = {ka, kr}
          /\ is_active(store[ka], now)
          /\ IsSome(store[kr].revocation)
          /\ now - Unwrap(store[kr].revocation) >= TicksPerSec

\* C7: PURGE never deletes a grant on the strength of an expiration time
\* that is later than now, whatever the grace and the flags; nor on the
\* strength of a revocation time that is later than now. A grant whose
\* expiration is later than now goes only if it is revoked, not later than
\* now, and REVOKED is set; likewise with the two exchanged.
C7_PurgeFutureSafe ==
    [][op'.name = "Purge"
       => \A k \in DOMAIN store :
             LET gr == store[k]
                 later(o) == IsSome(o) /\ Unwrap(o) > now
             IN /\ (/\ later(gr.expiration)
                    /\ \/ ~IsSome(gr.revocation)
                       \/ ~op'.stmt.revoked
                       \/ later(gr.revocation))
                   => k \in DOMAIN store'
                /\ (/\ later(gr.revocation)
                    /\ \/ ~IsSome(gr.expiration)
                       \/ ~op'.stmt.expired
                       \/ later(gr.expiration))
                   => k \in DOMAIN store']_vars

\* C7 witness: PURGE EXPIRED, REVOKED with no grace has succeeded and the
\* store still holds a grant that expires after now and one revoked after now.
C7_Witness ==
    /\ op.name = "Purge" /\ out.ok
    /\ op.stmt.expired /\ op.stmt.revoked /\ op.stmt.grace = 0
    /\ \E k \in DOMAIN store :
          IsSome(store[k].expiration) /\ Unwrap(store[k].expiration) > now
    /\ \E k \in DOMAIN store :
          IsSome(store[k].revocation) /\ Unwrap(store[k].revocation) > now

\* C8: the grace boundary is strict. Under PURGE EXPIRED a grant whose
\* expiration lies exactly grace seconds before now stays (unless its
\* revocation makes it go) and one whose expiration lies grace + 1 seconds
\* before now goes; the same under PURGE REVOKED for the revocation. So with
\* no grace a grant expired or revoked in the current second stays.
C8_PurgeGraceStrict ==
    [][(op'.name = "Purge" /\ out'.ok)
       => \A k \in DOMAIN store :
             LET gr == store[k]
                 g == secs(op'.stmt.grace)
                 ago(o) == timestamp(now) - timestamp(Unwrap(o))
             IN /\ (op'.stmt.expired /\ IsSome(gr.expiration))
                   => /\ (/\ ago(gr.expiration) = g
                          /\ ~IsSome(gr.revocation) \/ ~op'.stmt.revoked)
                         => k \in DOMAIN store'
                      /\ ago(gr.expiration) = g + 1 => k \notin DOMAIN store'
                /\ (op'.stmt.revoked /\ IsSome(gr.revocation))
                   => /\ (/\ ago(gr.revocation) = g
                          /\ ~IsSome(gr.expiration) \/ ~op'.stmt.expired)
                         => k \in DOMAIN store'
                      /\ ago(gr.revocation) = g + 1 => k \notin DOMAIN store']_vars

\* C8 witness: PURGE EXPIRED with a grace of one second has kept a grant that
\* expired one second ago and has returned a grant that expired two seconds ago.
C8_Witness ==
    /\ op.name = "Purge" /\ out.ok
    /\ op.stmt.expired /\ secs(op.stmt.grace) = 1
    /\ \E k \in DOMAIN store :
          /\ IsSome(store[k].expiration)
          /\ timestamp(now) - timestamp(Unwrap(store[k].expiration)) = 1
    /\ \E n \in 1..Len(out.v) :
          /\ IsSome(out.v[n].expiration)
          /\ timestamp(now) - timestamp(Unwrap(out.v[n].expiration)) = 2

\* The redacted documents of the grants of st under keys ks, in scan order.
InScanOrder(st, scope, ac, ks) ==
    LET ids == SelectSeq(IdOrder, LAMBDA i : gr_key(scope, ac, i) \in ks)
    IN [n \in 1..Len(ids) |-> ToObject(redacted(st[gr_key(scope, ac, ids[n])]))]

\* C9: a successful PURGE only deletes: every grant it leaves in the store
\* is there field for field as before, nothing is added or overwritten, and
\* it returns the redacted forms of exactly the deleted grants in scan order.
C9_PurgeFrame ==
    [][(op'.name = "Purge" /\ out'.ok)
       => LET a == Resolved(op', "Edit").v
              gone == DOMAIN store \ DOMAIN store'
          IN /\ DOMAIN store' \subseteq DOMAIN store
             /\ \A k \in DOMAIN store' : store'[k] = store[k]
             /\ \A n \in 1..Len(calls') : calls'[n][1] \notin {"put", "set"}
             /\ out'.v = InScanOrder(store, a.scope, op'.stmt.ac, gone)]_vars

\* C9 witness: a PURGE has returned two grants and left a third in the store.
C9_Witness ==
    /\ op.name = "Purge" /\ out.ok
    /\ Len(out.v) = 2
    /\ Cardinality(DOMAIN store) = 1

\* C10: the seconds elapsed since an expiration or revocation time that is
\* later than now come out as zero from the subtraction and the conversion to
\* u64, without the guard before them.
C10_ElapsedSaturatesAtZero ==
    \A k \in DOMAIN store :
        /\ (/\ IsSome(store[k].expiration)
            /\ timestamp(Unwrap(store[k].expiration)) > timestamp(now))
           => elapsed_secs(now, Unwrap(store[k].expiration)) = U64Zero
        /\ (/\ IsSome(store[k].revocation)
            /\ timestamp(Unwrap(store[k].revocation)) > timestamp(now))
           => elapsed_secs(now, Unwrap(store[k].revocation)) = U64Zero

----------------------------------------------------------------------------
(* Properties of the create specification. *)

\* The line that reports a collision of key identifiers.
CollisionLine == <<"error", "collision">>

\* The store has failed one of the calls cs of statement o: the o.fault-th
\* put, set or del among them.
StoreFailed(o, cs) ==
    o.fault \in 1..Len(SelectSeq(cs, LAMBDA c : c[1] \in {"put", "set", "del"}))

\* The last call of a statement is a put.
EndsInPut(cs) == Len(cs) > 0 /\ cs[Len(cs)][1] = "put"

\* C11: a GRANT whose key identifier is already that of a grant under the
\* same level and access method fails and leaves the store as it was; when
\* it gets to the insert and the store does not fail otherwise, the failure
\* is TxKeyAlreadyExists and the collision line is logged before it is
\* returned. The collision line is logged for no other failure.
C11_CollisionFails ==
    [][op'.name = "Grant"
       => LET a == Resolved(op', "Edit")
          IN /\ (a.ok /\ gr_key(a.v.scope, op'.stmt.ac, op'.rnd.id) \in DOMAIN store)
                => /\ ~out'.ok
                   /\ store' = store
                   /\ (EndsInPut(calls') /\ ~StoreFailed(op', calls'))
                      => /\ out'.e = "TxKeyAlreadyExists"
                         /\ log' = <<CollisionLine>>
             /\ CollisionLine \in Range(log')
                => ~out'.ok /\ out'.e = "TxKeyAlreadyExists"
             /\ (~out'.ok /\ out'.e # "TxKeyAlreadyExists")
                => CollisionLine \notin Range(log')]_vars

\* C11 witness: a GRANT has failed on a collision, which it has logged, and
\* the grant that was there is still stored.
C11_Witness ==
    /\ op.name = "Grant"
    /\ out = Err("TxKeyAlreadyExists")
    /\ log = <<CollisionLine>>
    /\ gr_key(ScopeDb, op.stmt.ac, op.rnd.id) \in DOMAIN store

\* C15: a GRANT returns a grant only if its insert into the store has
\* succeeded, the grant then being stored under its key, which was free; a
\* GRANT that fails, at whatever step, returns no grant and leaves every
\* entry of the grant store as it was, none added and none changed.
C15_CreateAllOrNothing ==
    [][op'.name = "Grant"
       => /\ out'.ok
             => LET k == gr_key(Resolved(op', "Edit").v.scope, op'.stmt.ac, op'.rnd.id)
                IN /\ EndsInPut(calls') /\ calls'[Len(calls')][2] = k
                   /\ ~StoreFailed(op', calls')
                   /\ k \notin DOMAIN store
                   /\ DOMAIN store' = DOMAIN store \cup {k}
                   /\ store'[k] = [out'.v EXCEPT !.grant = hashed(@)]
                   /\ \A j \in DOMAIN store : store'[j] = store[j]
          /\ ~out'.ok
             => /\ store' = store
                /\ out'.e \in {"NotAllowed", "AccessNotFound", "Unimplemented",
                               "AccessGrantInvalidSubject", "DbEmpty", "NsEmpty",
                               "AccessMethodMismatch", "UserNotFound", "NotFound",
                               "Tx", "TxKeyAlreadyExists"}]_vars

\* C15 witness: the store has failed the insert of a GRANT, which has
\* returned the failure, and the grants stored before are all there is.
C15_Witness ==
    /\ op.name = "Grant"
    /\ out = Err("Tx")
    /\ EndsInPut(calls)
    /\ calls[Len(calls)][2] \notin DOMAIN store
    /\ store # <<>>

\* The access method a GRANT statement resolves, when it resolves one.
MethodOf(o) == Resolved(o, "Edit").v.ac

\* A statement has written nothing: no put, set or del was called, no
\* namespace or database was defined, and the store is as it was.
WroteNothing ==
    /\ store' = store
    /\ defs' = defs
    /\ WriteCalls(calls') = <<>>

\* C16: a GRANT on a JWT access method fails with Unimplemented, whatever
\* the subject and the level, right after the lookup of the access method:
\* no user is looked up, no ancestor ensured and nothing written.
C16_JwtUnimplemented ==
    [][(op'.name = "Grant" /\ Resolved(op', "Edit").ok /\ MethodOf(op').kind.t = "Jwt")
       => /\ out' = Err("Unimplemented")
          /\ WroteNothing
          /\ Len(calls') = 2
          /\ calls'[1][1] = "clear" /\ calls'[2][1] = "get_access"
          /\ log' = <<>>]_vars

\* C16 witness: a GRANT on the JWT access method of the root, for a record,
\* has failed with Unimplemented.
C16_Witness ==
    /\ op.name = "Grant"
    /\ op.stmt.ac = "tok" /\ op.stmt.base = Some("Root")
    /\ op.stmt.subject.variant = "Record"
    /\ out = Err("Unimplemented")

\* C17: a GRANT on a record access method fails with
\* AccessGrantInvalidSubject for a user, at every level, and with DbEmpty
\* for a record at the root or namespace level, and writes nothing; it
\* succeeds only for a record at the database level.
C17_RecordMethodChecks ==
    [][(op'.name = "Grant" /\ Resolved(op', "Edit").ok /\ MethodOf(op').kind.t = "Record")
       => LET base == Resolved(op', "Edit").v.base
          IN /\ op'.stmt.subject.variant = "User"
                => out' = Err("AccessGrantInvalidSubject") /\ WroteNothing
             /\ (op'.stmt.subject.variant = "Record" /\ base \in {"Root", "Ns"})
                => out' = Err("DbEmpty") /\ WroteNothing
             /\ out'.ok => op'.stmt.subject.variant = "Record" /\ base = "Db"]_vars

\* C17 witness: a GRANT for a user on the record access method of the root
\* has failed with AccessGrantInvalidSubject.
C17_Witness ==
    /\ op.name = "Grant"
    /\ op.stmt.ac = "rec" /\ op.stmt.base = Some("Root")
    /\ op.stmt.subject.variant = "User"
    /\ out = Err("AccessGrantInvalidSubject")

\* C18: a GRANT for a record at the database level on a record access method
\* without bearer configuration fails with AccessMethodMismatch and writes
\* nothing.
C18_NoBearerConfigMismatch ==
    [][(/\ op'.name = "Grant" /\ Resolved(op', "Edit").ok
        /\ MethodOf(op').kind.t = "Record"
        /\ ~IsSome(MethodOf(op').kind.bearer)
        /\ op'.stmt.subject.variant = "Record"
        /\ Resolved(op', "Edit").v.base = "Db")
       => out' = Err("AccessMethodMismatch") /\ WroteNothing]_vars

\* C18 witness: a GRANT for a record on the database's record access method
\* without bearer configuration has failed with AccessMethodMismatch.
C18_Witness ==
    /\ op.name = "Grant"
    /\ op.stmt.ac = "recnb" /\ op.stmt.subject.variant = "Record"
    /\ out = Err("AccessMethodMismatch")

\* C19 as stated: a GRANT on a bearer access method whose subject is not of
\* the kind the method is configured for fails with
\* AccessGrantInvalidSubject and writes nothing; a grant is stored only when
\* the two match.
C19_MismatchInvalidSubject ==
    [][(op'.name = "Grant" /\ Resolved(op', "Edit").ok /\ MethodOf(op').kind.t = "Bearer")
       => /\ op'.stmt.subject.variant # MethodOf(op').kind.subject
             => out' = Err("AccessGrantInvalidSubject") /\ WroteNothing
          /\ out'.ok => op'.stmt.subject.variant = MethodOf(op').kind.subject]_vars

\* C19, amended: a GRANT on a bearer access method whose subject is not of
\* the kind the method is configured for fails and writes nothing: with
\* DbEmpty for a record at the root or namespace level, the level being
\* looked at first, and with AccessGrantInvalidSubject otherwise; a grant is
\* stored only when the two match.
C19_MismatchRejected ==
    [][(op'.name = "Grant" /\ Resolved(op', "Edit").ok /\ MethodOf(op').kind.t = "Bearer")
       => /\ op'.stmt.subject.variant # MethodOf(op').kind.subject
             => /\ WroteNothing
                /\ out' = IF /\ op'.stmt.subject.variant = "Record"
                             /\ Resolved(op', "Edit").v.base # "Db"
                          THEN Err("DbEmpty")
                          ELSE Err("AccessGrantInvalidSubject")
          /\ out'.ok => op'.stmt.subject.variant = MethodOf(op').kind.subject]_vars

\* C19 witness: a GRANT for a user on the database's bearer access method
\* for records has failed with AccessGrantInvalidSubject.
C19_Witness ==
    /\ op.name = "Grant"
    /\ op.stmt.ac = "rapi" /\ Resolved(op, "Edit").ok
    /\ Resolved(op, "Edit").v.base = "Db"
    /\ op.stmt.subject.variant = "User"
    /\ out = Err("AccessGrantInvalidSubject")

\* C20: a GRANT for a user on a bearer access method for users succeeds only
\* if the user is defined at the level of the statement; if not, the failure
\* of the lookup is returned and nothing is written. A GRANT for a record on
\* a bearer access method for records at the database level looks no record
\* up, and succeeds when the store takes the insert.
C20_UserMustExist ==
    [][(op'.name = "Grant" /\ Resolved(op', "Edit").ok /\ MethodOf(op').kind.t = "Bearer")
       => LET a == Resolved(op', "Edit").v
              k == gr_key(a.scope, op'.stmt.ac, op'.rnd.id)
          IN /\ (op'.stmt.subject.variant = "User" /\ a.ac.kind.subject = "User")
                => /\ calls'[3] = <<"get_user", a.scope, op'.stmt.subject.id>>
                   /\ out'.ok => <<a.scope, op'.stmt.subject.id>> \in Users
                   /\ <<a.scope, op'.stmt.subject.id>> \notin Users
                      => out' = Err("UserNotFound") /\ WroteNothing
             /\ (/\ op'.stmt.subject.variant = "Record" /\ a.ac.kind.subject = "Record"
                 /\ a.base = "Db")
                => /\ \A c \in Range(calls') :
                         c[1] \in {"clear", "get_access", "get_or_add", "put"}
                   /\ (/\ ~StoreFailed(op', calls') /\ k \notin DOMAIN store
                       /\ ~op'.opt.strict \/ {<<"ns", a.scope[2]>>, a.scope} \subseteq defs)
                      => out'.ok /\ k \in DOMAIN store']_vars

\* C20 witness: a GRANT for a user defined at the root only, on the
\* database's bearer access method for users, has failed on the lookup of
\* the user.
C20_Witness ==
    /\ op.name = "Grant"
    /\ op.stmt.ac = "api" /\ Resolved(op, "Edit").ok
    /\ Resolved(op, "Edit").v.base = "Db"
    /\ op.stmt.subject = User("jaime")
    /\ out = Err("UserNotFound")

----------------------------------------------------------------------------
(* Properties of the secret of a bearer grant. *)

\* A string of the shape "{prefix}-{id}-{secret}" for the key identifier id.
IsBearerKey(x, id) == Len(x) = 5 /\ x[2] = "-" /\ x[3] = id /\ x[4] = "-"

\* The bearer key that GRANT statement o generates.
KeyOf(o) ==
    LET kind == Resolved(o, "Edit").v.ac.kind
    IN <<prefix(IF kind.t = "Record" THEN Unwrap(kind.bearer).kind ELSE kind.kind),
         "-", o.rnd.id, "-", o.rnd.secret>>

\* C12: the key of every stored bearer grant is the hash of the bearer key
\* generated when the grant was created, and neither that key in plain text
\* nor the redaction marker: a successful GRANT stores the hash of the key it
\* returns, a function of that key alone, and no later statement, REVOKE's
\* write-back included, changes the key of a grant that stays stored.
C12_StoredKeyHashed ==
    [][/\ (op'.name = "Grant" /\ out'.ok)
          => LET k == gr_key(Resolved(op', "Edit").v.scope, op'.stmt.ac, op'.rnd.id)
             IN /\ DOMAIN store' = DOMAIN store \cup {k}
                /\ k \notin DOMAIN store
                /\ out'.v.grant.key = KeyOf(op')
                /\ store'[k].grant.key = Sha256Hex(KeyOf(op'))
       /\ ~(op'.name = "Grant" /\ out'.ok) => DOMAIN store' \subseteq DOMAIN store
       /\ \A k \in DOMAIN store \cap DOMAIN store' :
             store'[k].grant.key = store[k].grant.key
       /\ \A k \in DOMAIN store' :
             LET key == store'[k].grant.key
             IN /\ key # REDACTED
                /\ ~IsBearerKey(key, store'[k].id)
                /\ Head(key) = "sha256"
                /\ IsBearerKey(Tail(key), store'[k].id)]_vars

\* C12 witness: a REVOKE has written back a grant, which is stored revoked
\* under the hash of its bearer key.
C12_Witness ==
    /\ op.name = "Revoke" /\ out.ok
    /\ \E c \in Range(calls) : c[1] = "set"
    /\ \E k \in DOMAIN store :
          /\ IsSome(store[k].revocation)
          /\ store[k].grant.key
             = Sha256Hex(<<prefix("Bearer"), "-", store[k].id, "-", "s1">>)

\* The grants that statement o has returned in v.
Returned(o, v) ==
    IF o.name = "Show" /\ IsSome(o.stmt.gr) THEN {v} ELSE Range(v)

\* C13: every bearer grant returned by a successful SHOW, REVOKE (of one
\* grant or of many) or PURGE carries the redaction marker as its key, not
\* the bearer key and not its stored hash; a successful GRANT
\* returns the grant with the bearer key in plain text, of which the store
\* holds the hash.
C13_SecretOnlyFromCreate ==
    /\ (op.name \in {"Show", "Revoke", "Purge"} /\ out.ok)
       => \A g \in Returned(op, out.v) :
             /\ g.type = "bearer"
             /\ g.grant.key = REDACTED
             /\ \A k \in DOMAIN store : g.grant.key # store[k].grant.key
             /\ ~IsBearerKey(g.grant.key, g.id)
    /\ (op.name = "Grant" /\ out.ok)
       => /\ out.v.grant.key = KeyOf(op)
          /\ IsBearerKey(out.v.grant.key, out.v.id)
          /\ \E k \in DOMAIN store : store[k].grant.key = Sha256Hex(out.v.grant.key)

\* C13 witness: a bulk REVOKE has returned a grant, the redaction marker in
\* the place of its key, and the grant is stored under the hash of its key.
C13_Witness ==
    /\ IsBulkRevoke(op) /\ out.ok
    /\ Len(out.v) > 0
    /\ out.v[1].grant.key = REDACTED
    /\ \E k \in DOMAIN store :
          /\ store[k].id = out.v[1].id
          /\ Head(store[k].grant.key) = "sha256"

\* The stores that differ from st at most in the keys of its bearer grants:
\* each grant keeps its key or has the hash of another secret for it.
Rekeyed(st) ==
    LET other(g) == [g EXCEPT !.grant.key = StoredKey(g.id, "s2")]
    IN {tw \in [DOMAIN st -> {st[k] : k \in DOMAIN st} \cup {other(st[k]) : k \in DOMAIN st}] :
            \A k \in DOMAIN st : tw[k] \in {st[k], other(st[k])}}

\* C14: a SHOW or REVOKE without a grant identifier comes out the same on
\* two stores that differ only in the stored keys of bearer grants: the
\* same result, the same calls and audit lines, and stores that after the
\* statement differ as before it, each grant with the key it had. The
\* condition is computed on the redacted grant only.
C14_FilterSeesNoSecret ==
    [][(op'.name \in {"Show", "Revoke"} /\ ~IsSome(op'.stmt.gr))
       => \A tw \in Rekeyed(store) :
             LET T == Txn(tw, defs, Steady(now), op'.fault)
                 r == IF op'.name = "Show"
                      THEN compute_show(op'.stmt, op'.opt, T)
                      ELSE revoke_grant(op'.stmt, op'.opt, T)
             IN /\ r.out = out'
                /\ r.calls = calls'
                /\ r.log = log'
                /\ DOMAIN r.store = DOMAIN store'
                /\ \A k \in DOMAIN store' :
                      /\ r.store[k].grant.key = tw[k].grant.key
                      /\ [r.store[k] EXCEPT !.grant.key = store'[k].grant.key] = store'[k]]_vars

\* C14 witness: a SHOW for the grants whose key is the stored hash of a
\* grant has returned nothing, that grant being stored; the condition has
\* seen the redaction marker.
C14_Witness ==
    /\ op.name = "Show" /\ ~IsSome(op.stmt.gr) /\ out.ok
    /\ IsSome(op.stmt.cond)
    /\ Unwrap(op.stmt.cond).t = "key"
    /\ Unwrap(op.stmt.cond).v = StoredKey("k1", "s1")
    /\ out.v = <<>>
    /\ \E k \in DOMAIN store : store[k].grant.key = StoredKey("k1", "s1")

----------------------------------------------------------------------------
(* The clock specification: GRANT statements whose readings of the wall     *)
(* clock are one reading each, so that the clock may move on between the    *)
(* reading that becomes the creation time of a grant and the reading its    *)
(* expiration time is computed from.                                        *)

\* GRANT on the bearer methods of the database: "api" has a grant duration,
\* "rapi" has none.
ClockInputs ==
    {[stmt |-> [ac |-> "api", base |-> None, subject |-> User("tobie")], opt |-> Owner,
      rnd |-> [id |-> i, secret |-> "s1"], fault |-> 0] : i \in {"k1", "k2"}}
    \cup {[stmt |-> [ac |-> "rapi", base |-> None, subject |-> Record("r1")], opt |-> Owner,
           rnd |-> [id |-> i, secret |-> "s1"], fault |-> 0] : i \in {"k1", "k2"}}

InitClock ==
    /\ store = <<>>
    /\ defs = {<<"ns", "n1">>, ScopeDb}
    /\ now = 0
    /\ op = [name |-> "Init"]
    /\ out = Ok("")
    /\ calls = <<>>
    /\ log = <<>>
    /\ pending = <<>>

NextClock ==
    \/ \E i \in ClockInputs, c \in Clocks(now) : Grant(i.stmt, i.opt, i.rnd, c, i.fault)
    \/ Tick

SpecClock == InitClock /\ [][NextClock]_vars

----------------------------------------------------------------------------
(* Properties of the grant a GRANT statement builds *)

\* C21: the grant a successful GRANT returns has the identifier of its new
\* bearer key, no revocation time, the subject of the statement, and an
\* expiration time that is its creation time plus the grant duration of the
\* access method, or none when the method has no grant duration.
C21_GrantAsBuilt ==
    [][(op'.name = "Grant" /\ out'.ok)
       => LET gr == out'.v
              duration == MethodOf(op').duration.grant
          IN /\ gr.id = gr.grant.id
             /\ gr.id = op'.rnd.id
             /\ gr.revocation = None
             /\ gr.subject = op'.stmt.subject
             /\ gr.expiration = IF IsSome(duration)
                                THEN Some(gr.creation + Unwrap(duration))
                                ELSE None]_vars

----------------------------------------------------------------------------
(* Properties of the fields REVOKE leaves alone *)

\* A grant with its revocation time left out.
Unrevoked(gr) == [gr EXCEPT !.revocation = None]

\* C22: a REVOKE statement, with an identifier or without, writes no new
\* key and removes none, and no statement changes anything but the
\* revocation time of a grant that stays in the store: identifier, access
\* method, creation time, expiration time, subject and payload stay what
\* they were, so that an expiration time is never changed.
C22_RevokeFrame ==
    [][/\ op'.name = "Revoke" => DOMAIN store' = DOMAIN store
       /\ \A k \in DOMAIN store \cap DOMAIN store' :
             /\ Unrevoked(store'[k]) = Unrevoked(store[k])
             /\ store'[k].expiration = store[k].expiration]_vars

\* C22 witness: a REVOKE has just revoked a stored grant that has an
\* expiration time, and the store holds a second grant.
C22_Witness ==
    /\ op.name = "Revoke"
    /\ out.ok
    /\ Cardinality(DOMAIN store) = 2
    /\ \E k \in DOMAIN store :
          /\ store[k].revocation = Some(now)
          /\ IsSome(store[k].expiration)
          /\ now > store[k].creation

----------------------------------------------------------------------------
(* The head specification: every statement, on an access method the catalog *)
(* has and on one it lacks, at the selected level and at the root, from     *)
(* sessions that may view and edit, only view, only edit, or do either on   *)
(* the database alone.                                                      *)

Editor ==
    [Owner EXCEPT !.auth = [id |-> "editor", allowed |-> {"Edit"} \X {"Root", "Ns", "Db"}]]
DbAdmin ==
    [Owner EXCEPT !.auth = [id |-> "dbadmin", allowed |-> {"View", "Edit"} \X {"Db"}]]

HeadSessions == {Owner, Viewer, Editor, DbAdmin}
HeadMethods == {"api", "nope"}
HeadBases == {None, Some("Root")}

\* The statements of the head specification, by their targets.
HeadTargets == [ac : HeadMethods, base : HeadBases]

\* The stores the statements start from: the database's grant "k1" absent,
\* unrevoked, or revoked a second ago.
HeadStores == {st \in FilterStores : gr_key(ScopeDb, "api", "k2") \notin DOMAIN st}

InitHead ==
    /\ store \in HeadStores
    /\ defs = {<<"ns", "n1">>, ScopeDb}
    /\ now = TicksPerSec
    /\ op = [name |-> "Init"]
    /\ out = Ok("")
    /\ calls = <<>>
    /\ log = <<>>
    /\ pending = <<>>

\* The statements on the targets: GRANT for the user tobie with the key
\* identifier "k3", SHOW and REVOKE of all grants and of the grant "k1", and
\* PURGE of what is expired or revoked, without grace.
HeadGrants == {t @@ [subject |-> User("tobie")] : t \in HeadTargets}
HeadRnd == [id |-> "k3", secret |-> "s1"]
HeadSelections ==
    {t @@ [gr |-> g, cond |-> None] : t \in HeadTargets, g \in {None, Some("k1")}}
HeadPurges ==
    {t @@ [expired |-> TRUE, revoked |-> TRUE, grace |-> 0] : t \in HeadTargets}

NextHead ==
    \E o \in HeadSessions :
        \/ \E s \in HeadGrants : Grant(s, o, HeadRnd, Steady(now), 0)
        \/ \E s \in HeadSelections : Show(s, o, Steady(now))
        \/ \E s \in HeadSelections : Revoke(s, o, Steady(now), 0)
        \/ \E s \in HeadPurges : Purge(s, o, Steady(now), 0)

SpecHead == InitHead /\ [][NextHead]_vars

----------------------------------------------------------------------------
(* Properties of the head of a statement *)

IsStatement(o) == o.name \in {"Grant", "Show", "Revoke", "Purge"}

\* The action a statement needs on access resources.
Needs(o) == IF o.name = "Show" THEN "View" ELSE "Edit"

\* The level a statement is about: the one it names, or the selected one.
LevelOf(o) == IF IsSome(o.stmt.base) THEN Ok(Unwrap(o.stmt.base)) ELSE selected_base(o.opt)

\* C23: GRANT, REVOKE and PURGE need the Edit action and SHOW the View
\* action on access resources at the level of the statement. A session
\* without it gets NotAllowed before the cache is cleared and before any
\* call to the store, with nothing written or logged; a session with it
\* never gets NotAllowed.
C23_AuthorizationFirst ==
    [][(IsStatement(op') /\ LevelOf(op').ok)
       => IF <<Needs(op'), LevelOf(op').v>> \in op'.opt.auth.allowed
          THEN out' # Err("NotAllowed")
          ELSE /\ out' = Err("NotAllowed")
               /\ calls' = <<>>
               /\ log' = <<>>
               /\ store' = store
               /\ defs' = defs]_vars

\* C23 witness: a SHOW from a session that may edit but not view has been
\* denied over a store that holds a grant.
C23_Witness ==
    /\ op.name = "Show"
    /\ <<"Edit", "Db">> \in op.opt.auth.allowed
    /\ ~IsSome(op.stmt.base)
    /\ out = Err("NotAllowed")
    /\ calls = <<>>
    /\ store # <<>>

\* The scope of the level a statement is about, when the session selects it.
ScopeOf(o) == base_scope(LevelOf(o).v, o.opt)

\* The catalog has no access method of the statement's name at its level.
MethodMissing(o) ==
    \A d \in Catalog : ~(d.scope = ScopeOf(o).v /\ d.name = o.stmt.ac)

\* C24: a statement of any of the four kinds that is allowed and names an
\* access method the catalog lacks at its level fails with the error of the
\* lookup, AccessNotFound, right after it: the cache clear and the lookup
\* are its only calls, no grant is read, written or deleted, nothing is
\* logged, and the result is never an empty collection.
C24_MissingMethodFails ==
    [][(/\ IsStatement(op')
        /\ LevelOf(op').ok
        /\ <<Needs(op'), LevelOf(op').v>> \in op'.opt.auth.allowed
        /\ ScopeOf(op').ok
        /\ MethodMissing(op'))
       => /\ out' = Err("AccessNotFound")
          /\ calls' = << <<"clear">>, <<"get_access", ScopeOf(op').v, op'.stmt.ac>> >>
          /\ log' = <<>>
          /\ store' = store
          /\ defs' = defs]_vars

\* C24 witness: a PURGE on an access method the root lacks has failed with
\* AccessNotFound over a store that holds a grant.
C24_Witness ==
    /\ op.name = "Purge"
    /\ op.stmt.ac = "nope"
    /\ op.stmt.base = Some("Root")
    /\ out = Err("AccessNotFound")
    /\ store # <<>>

----------------------------------------------------------------------------
(* Properties of SHOW *)

\* C25: a SHOW statement, with an identifier or without, with a condition
\* or without, whether it succeeds or fails, calls no put, set or del,
\* defines no namespace or database, and leaves every stored grant as it was.
C25_ShowReadOnly ==
    [][op'.name = "Show" => WroteNothing]_vars

\* C25 witness: a SHOW with a condition has returned one of two stored
\* grants, one of which is revoked.
C25_Witness ==
    /\ op.name = "Show"
    /\ ~IsSome(op.stmt.gr)
    /\ IsSome(op.stmt.cond)
    /\ out.ok
    /\ Len(out.v) = 1
    /\ Cardinality(DOMAIN store) = 2
    /\ \E k \in DOMAIN store : IsSome(store[k].revocation)

IsSingleShow(o) == o.name = "Show" /\ IsSome(o.stmt.gr)

\* The document of a grant with the key of its bearer payload redacted.
KeyRedacted(gr) == [ToObject(gr) EXCEPT !.grant.key = REDACTED]

\* C26: SHOW GRANT <id> returns the stored grant of that identifier under
\* the access method with its key replaced by the redaction marker and all
\* else as stored, and fails with AccessGrantNotFound when there is none;
\* right after a successful GRANT, SHOW of the returned identifier gives the
\* returned grant, unrevoked, with only the key replaced.
C26_ShowById ==
    [][(IsSingleShow(op') /\ Resolved(op', "View").ok)
       => LET a == Resolved(op', "View").v
              k == gr_key(a.scope, op'.stmt.ac, Unwrap(op'.stmt.gr))
          IN /\ k \notin DOMAIN store => out' = Err("AccessGrantNotFound")
             /\ k \in DOMAIN store => out' = Ok(KeyRedacted(store[k]))
             /\ (/\ op.name = "Grant" /\ out.ok
                 /\ op'.stmt.gr = Some(out.v.id)
                 /\ op'.stmt.ac = op.stmt.ac
                 /\ Resolved(op, "Edit").v.scope = a.scope)
                => /\ out' = Ok(KeyRedacted(out.v))
                   /\ out.v.grant.key # REDACTED
                   /\ out'.v.revocation = None]_vars

\* C26 witness: SHOW GRANT <id> has returned an unrevoked grant created at
\* the present time, its key redacted.
C26_Witness ==
    /\ IsSingleShow(op)
    /\ out.ok
    /\ out.v.grant.key = REDACTED
    /\ out.v.revocation = None
    /\ out.v.creation = now
    /\ now > 0

IsBulkShow(o) == o.name = "Show" /\ ~IsSome(o.stmt.gr)

\* The grants under keys ks for which the condition of the statement is
\* truthy on the redacted grant: all of them when it has no condition.
Shown(st, ks, stmt) ==
    {k \in ks :
        \/ ~IsSome(stmt.cond)
        \/ cond_compute(Unwrap(stmt.cond), ToObject(redacted(st[k]))) = Ok(TRUE)}

\* C27: a successful SHOW without an identifier returns the redacted forms
\* of exactly the grants of the access method for which its condition is
\* truthy on the redacted grant, all of them without a condition, each once
\* and in the order of the scan; revoked and expired grants are among them.
C27_BulkShowExact ==
    [][(IsBulkShow(op') /\ out'.ok)
       => LET a == Resolved(op', "View").v
              ks == GrantKeys(store, a.scope, op'.stmt.ac)
          IN out'.v = InScanOrder(store, a.scope, op'.stmt.ac, Shown(store, ks, op'.stmt))]_vars

\* C27 witness: a SHOW without identifier or condition has returned two
\* grants in scan order, the first revoked and the second expired.
C27_Witness ==
    /\ IsBulkShow(op)
    /\ ~IsSome(op.stmt.cond)
    /\ out.ok
    /\ Len(out.v) = 2
    /\ out.v[1].id = "k1" /\ out.v[2].id = "k2"
    /\ IsSome(out.v[1].revocation)
    /\ ~IsSome(out.v[2].revocation)
    /\ IsSome(out.v[2].expiration) /\ Unwrap(out.v[2].expiration) < now

----------------------------------------------------------------------------
(* Properties of REVOKE GRANT <id> *)

\* C28: REVOKE GRANT <id> on a stored, unrevoked grant, the store not
\* failing, gives the grant the current time as revocation time and nothing
\* else, writes it with one set under the key it was fetched from, no put,
\* and returns the redacted revoked grant as the one element of a
\* collection; when no grant of that identifier is stored it fails with
\* AccessGrantNotFound and writes nothing.
C28_RevokeById ==
    [][(IsSingleRevoke(op') /\ Resolved(op', "Edit").ok)
       => LET a == Resolved(op', "Edit").v
              k == gr_key(a.scope, op'.stmt.ac, Unwrap(op'.stmt.gr))
              writes == SelectSeq(calls', LAMBDA c : c[1] \in {"put", "set", "del"})
          IN /\ k \notin DOMAIN store
                => (out' = Err("AccessGrantNotFound") /\ WroteNothing)
             /\ (/\ k \in DOMAIN store
                 /\ ~IsSome(store[k].revocation)
                 /\ ~StoreFailed(op', calls'))
                => /\ store' = [store EXCEPT ![k].revocation = Some(now)]
                   /\ writes = << <<"set", k>> >>
                   /\ out' = Ok(<<KeyRedacted(store'[k])>>)
                   /\ out'.v[1].revocation = Some(now)]_vars

\* C28 witness: REVOKE GRANT <id> has returned one grant, revoked at the
\* present time and redacted, that was created earlier.
C28_Witness ==
    /\ IsSingleRevoke(op)
    /\ out.ok
    /\ Len(out.v) = 1
    /\ out.v[1].revocation = Some(now)
    /\ out.v[1].grant.key = REDACTED
    /\ out.v[1].creation < now

----------------------------------------------------------------------------
(* The grant specification: the methods of AccessGrant applied to one grant *)
(* of any payload, with any expiration and revocation times, at any time.   *)

EntityKey == gr_key(ScopeDb, "api", "k1")

\* Payloads of the three variants: tokens present and absent, a bearer key
\* in plaintext, hashed and redacted.
Payloads ==
    {[variant |-> "jwt", jti |-> "j1", token |-> t] : t \in {None, Some("t1")}}
    \cup {[variant |-> "record", rid |-> "r1", jti |-> "j1", token |-> t] :
            t \in {None, Some("t1")}}
    \cup {[variant |-> "bearer"] @@ b :
            b \in {GrantBearer_new(prefix("Bearer"), "k1", "s1"),
                   hashed(GrantBearer_new(prefix("Bearer"), "k1", "s1")),
                   [id |-> "k1", key |-> REDACTED]}}

EntityTimes == {None} \cup {Some(t) : t \in 0..MaxTime}

EntityGrants ==
    {[id |-> "k1", ac |-> "api", creation |-> 0, expiration |-> e, revocation |-> r,
      subject |-> s, grant |-> p] :
        e \in EntityTimes, r \in EntityTimes, s \in {User("tobie"), Record("r1")},
        p \in Payloads}

InitEntity ==
    /\ store \in {(EntityKey :> g) : g \in EntityGrants}
    /\ defs = {<<"ns", "n1">>, ScopeDb}
    /\ now \in 0..MaxTime
    /\ op = [name |-> "Init"]
    /\ out = Ok("")
    /\ calls = <<>>
    /\ log = <<>>
    /\ pending = <<>>

\* is_active, is_expired and is_revoked of the grant at the present time.
IsActive ==
    /\ op' = [name |-> "IsActive"]
    /\ out' = Ok([active |-> is_active(store[EntityKey], now),
                  expired |-> is_expired(store[EntityKey], now),
                  revoked |-> is_revoked(store[EntityKey])])
    /\ calls' = <<>>
    /\ log' = <<>>
    /\ UNCHANGED <<store, defs, now, pending>>

\* redacted of the grant, and redacted of what that returned.
Redact ==
    /\ op.name = "Redact" => op.n < 2
    /\ op' = [name |-> "Redact", n |-> IF op.name = "Redact" THEN op.n + 1 ELSE 1]
    /\ out' = Ok(redacted(IF op.name = "Redact" THEN out.v ELSE store[EntityKey]))
    /\ calls' = <<>>
    /\ log' = <<>>
    /\ UNCHANGED <<store, defs, now, pending>>

NextEntity == IsActive \/ Redact

SpecEntity == InitEntity /\ [][NextEntity]_vars

----------------------------------------------------------------------------
(* Properties of the methods of a grant *)

\* C29: at every time, for every grant, is_active is the negation of
\* is_expired or is_revoked; is_expired holds exactly when the grant has an
\* expiration time that lies strictly before the time of evaluation, so not
\* at the instant of expiration; is_revoked holds exactly when it has a
\* revocation time.
C29_ActivePredicate ==
    [][op'.name = "IsActive"
       => LET gr == store[EntityKey]
          IN /\ out'.v.active = ~(out'.v.expired \/ out'.v.revoked)
             /\ out'.v.expired = (\E e \in 0..(now - 1) : gr.expiration = Some(e))
             /\ out'.v.revoked = (gr.revocation # None)]_vars

\* C29 witness: a grant evaluated at the instant of its expiration, not
\* revoked, has been found active.
C29_Witness ==
    /\ op.name = "IsActive"
    /\ store[EntityKey].expiration = Some(now)
    /\ store[EntityKey].revocation = None
    /\ out.v.active
    /\ now > 0

\* The secret of a payload: the key of a bearer grant, the token of the others.
Secret(p) == IF p.variant = "bearer" THEN p.key ELSE p.token

\* A payload with its secret left out.
Public(p) == [f \in DOMAIN p \ {"key", "token"} |-> p[f]]

\* C30: redacting what redaction returned returns the same again, for a
\* grant of every payload; the redacted grant has the identifier, access
\* method, creation, expiration and revocation times and subject of the
\* grant, and the payload of the grant but for its secret, which is the
\* marker for a bearer key and none for a token.
C30_RedactionIdempotent ==
    [][op'.name = "Redact"
       => LET gr == store[EntityKey]
          IN /\ op'.n = 2 => out' = out
             /\ [out'.v EXCEPT !.grant = Public(@)] = [gr EXCEPT !.grant = Public(@)]
             /\ DOMAIN out'.v.grant = DOMAIN gr.grant
             /\ Secret(out'.v.grant) = IF gr.grant.variant = "bearer" THEN REDACTED ELSE None]_vars

\* C30 witness: a bearer grant with a hashed key has been redacted twice.
C30_Witness ==
    /\ op.name = "Redact"
    /\ op.n = 2
    /\ store[EntityKey].grant.variant = "bearer"
    /\ store[EntityKey].grant.key = StoredKey("k1", "s1")
    /\ out.v.grant.key = REDACTED

----------------------------------------------------------------------------
(* Properties of the keys of the store *)

\* C31: every stored bearer grant has the identifier of the key of its
\* payload, and sits under the store key that ends in its access method and
\* its identifier, at every level, after GRANT and after the write-back of
\* REVOKE alike.
C31_KeyMatchesGrant ==
    \A k \in DOMAIN store :
        /\ store[k].grant.variant = "bearer"
        /\ store[k].id = store[k].grant.id
        /\ k[Len(k)] = store[k].id
        /\ k[Len(k) - 1] = store[k].ac
        /\ \E scope \in {ScopeRoot, ScopeNs, ScopeDb} : k = gr_key(scope, store[k].ac, store[k].id)

\* C31 witness: a REVOKE has written back a grant of the root, and the
\* store holds a grant of the database as well.
C31_Witness ==
    /\ op.name = "Revoke"
    /\ out.ok
    /\ \E k \in DOMAIN store : k[1] = "root" /\ store[k].revocation = Some(now)
    /\ \E k \in DOMAIN store : k[1] = "db"

----------------------------------------------------------------------------
(* The interleaving specification: REVOKE statements of two tasks that are  *)
(* suspended at the await between the read of the grants and the write-back *)
(* while the other task, a PURGE, a GRANT or the clock goes on. Each write  *)
(* lands in the store when it is called: the store is asked for get, put,   *)
(* set, del and scan only, and no call of a statement is conditional on     *)
(* what another statement has written since the read.                       *)

Tasks == {"t1", "t2"}

\* revoke_grant up to its first write: the head, the fetch or the scan, and
\* for a fetched grant the revoked check and the assignment of the time.
\* Either the statement has ended (done) or it is suspended with what it read.
revoke_read(stmt, opt, T) ==
    LET a == resolve(T, stmt, opt, "Edit")
    IN IF ~a.r.ok THEN [done |-> TRUE, ret |-> Ret(a.t, a.r)]
       ELSE IF IsSome(stmt.gr)
       THEN LET g == tx_get_grant(a.t, gr_key(a.r.v.scope, stmt.ac, Unwrap(stmt.gr)))
            IN IF ~g.r.ok THEN [done |-> TRUE, ret |-> Ret(g.t, g.r)]
               ELSE IF IsSome(g.r.v.revocation)
               THEN [done |-> TRUE, ret |-> Ret(g.t, Err("AccessGrantRevoked"))]
               ELSE [done |-> FALSE, a |-> a.r.v, calls |-> g.t.calls,
                     grs |-> <<[g.r.v EXCEPT !.revocation = Some(clock(g.t))]>>]
       ELSE LET grs == tx_all_grants(a.t, a.r.v.scope, stmt.ac)
            IN [done |-> FALSE, a |-> a.r.v, calls |-> grs.t.calls, grs |-> grs.r.v]

\* revoke_grant from its first write on, against the store as it is then.
revoke_resume(stmt, opt, T, read) ==
    IF IsSome(stmt.gr)
    THEN LET revoke == read.grs[1]
             w == revoke_write(T, read.a.scope, stmt.ac, Unwrap(stmt.gr), revoke, opt)
         IN IF ~w.r.ok THEN Ret(w.t, w.r)
            ELSE Ret(Logged(w.t, info("revoke", revoke, opt)),
                     Ok(<<ToObject(redacted(revoke))>>))
    ELSE revoke_loop(T, read.grs, 1, read.a, stmt, opt, <<>>)

\* A task issues a REVOKE, which ends at once or is suspended after its read.
Suspend(p, stmt, opt) ==
    LET read == revoke_read(stmt, opt, Txn(store, defs, Steady(now), 0))
        o == [name |-> "Revoke", stmt |-> stmt, opt |-> opt, fault |-> 0, task |-> p]
    IN /\ p \notin DOMAIN pending
       /\ IF read.done
          THEN Apply(o, Steady(now), read.ret)
          ELSE /\ pending' = (p :> [stmt |-> stmt, opt |-> opt, read |-> read]) @@ pending
               /\ op' = [o EXCEPT !.name = "Suspend"]
               /\ out' = Ok("")
               /\ calls' = read.calls
               /\ log' = <<>>
               /\ UNCHANGED <<store, defs, now>>

\* The suspended REVOKE of a task goes on to its end.
Resume(p) ==
    /\ p \in DOMAIN pending
    /\ LET s == pending[p]
           T == [Txn(store, defs, Steady(now), 0) EXCEPT !.calls = s.read.calls]
           r == revoke_resume(s.stmt, s.opt, T, s.read)
       IN /\ op' = [name |-> "Revoke", stmt |-> s.stmt, opt |-> s.opt, fault |-> 0,
                    task |-> p]
          /\ out' = r.out
          /\ store' = r.store
          /\ defs' = r.defs
          /\ calls' = r.calls
          /\ log' = r.log
          /\ now' = now
          /\ pending' = [q \in DOMAIN pending \ {p} |-> pending[q]]

\* The grant "k1" of the database, with or without an expiration time in the
\* past, and with or without a second grant beside it.
RaceStores ==
    {StoreOf({StoredGrant("k1", e, None)} \cup others) :
        e \in {None, Some(0)}, others \in {{}, {StoredGrant("k2", None, None)}}}

InitRace ==
    /\ store \in RaceStores
    /\ defs = {<<"ns", "n1">>, ScopeDb}
    /\ now = 0
    /\ op = [name |-> "Init"]
    /\ out = Ok("")
    /\ calls = <<>>
    /\ log = <<>>
    /\ pending = <<>>

\* The statements of the tasks: REVOKE of all grants or of the grant "k1",
\* PURGE of what is expired or revoked, without grace, and GRANT for the
\* user tobie with the key identifier "k1".
RaceRevokes == {Api([gr |-> g, cond |-> None]) : g \in {None, Some("k1")}}
RacePurge == Api([expired |-> TRUE, revoked |-> TRUE, grace |-> 0])
RaceGrant == Api([subject |-> User("tobie")])
RaceRnd == [id |-> "k1", secret |-> "s1"]

NextRace ==
    \/ \E p \in Tasks, s \in RaceRevokes : Suspend(p, s, Owner)
    \/ \E p \in Tasks : Resume(p)
    \/ Purge(RacePurge, Owner, Steady(now), 0)
    \/ Grant(RaceGrant, Owner, RaceRnd, Steady(now), 0)
    \/ Tick

SpecRace == InitRace /\ [][NextRace]_vars

----------------------------------------------------------------------------
(* Properties of interleaved statements *)

\* C32: when the REVOKE GRANT <id> statements of two tasks on one unrevoked
\* grant interleave between fetch and write-back, the write-back of a task
\* never lands on a grant that carries a revocation time already: the time
\* written first is not overwritten, and only one of the two writes one.
C32_RevokedOnceInterleaved ==
    [][(IsSingleRevoke(op') /\ out'.ok)
       => LET k == gr_key(ScopeDb, op'.stmt.ac, Unwrap(op'.stmt.gr))
          IN k \in DOMAIN store => ~IsSome(store[k].revocation)]_vars

\* C33: a grant that a PURGE has deleted stays deleted: the write-back of a
\* REVOKE, with an identifier or without, that read the grant before the
\* deletion does not put it back, and its key is absent from the store until
\* a GRANT inserts it anew.
C33_PurgedStaysPurged ==
    [][\A k \in DOMAIN store' \ DOMAIN store : op'.name = "Grant"]_vars

----------------------------------------------------------------------------
(* Properties of the order of the calls of a statement *)

\* The ensure calls GRANT owes to a scope: none at the root, the namespace
\* under a namespace, the namespace and then the database under a database.
Ensures(scope) ==
    CASE scope[1] = "root" -> <<>>
      [] scope[1] = "ns" -> << <<"get_or_add", scope>> >>
      [] scope[1] = "db" -> << <<"get_or_add", <<"ns", scope[2]>>>>, <<"get_or_add", scope>> >>

IsPrefix(a, b) == Len(a) <= Len(b) /\ a = SubSeq(b, 1, Len(a))

\* C34: the ensure calls and the put of a GRANT come in one order: the
\* namespace, then the database, then the put, with no ensure call at the
\* root; a GRANT that succeeds has made all of them, and one whose ensure
\* call fails, as in strict mode on a namespace that is not defined, makes
\* no put and writes no grant.
C34_EnsureBeforeInsert ==
    [][(op'.name = "Grant" /\ Resolved(op', "Edit").ok)
       => LET a == Resolved(op', "Edit").v
              k == gr_key(a.scope, op'.stmt.ac, op'.rnd.id)
              due == Ensures(a.scope) \o << <<"put", k>> >>
              made == SelectSeq(calls', LAMBDA c : c[1] \in {"get_or_add", "put"})
          IN /\ IsPrefix(made, due)
             /\ out'.ok => made = due
             /\ made # due => store' = store
             /\ (/\ made # <<>>
                 /\ op'.opt.strict
                 /\ \E n \in 1..Len(Ensures(a.scope)) : Ensures(a.scope)[n][2] \notin defs)
                => (~out'.ok /\ made # due /\ store' = store)]_vars

\* C34 witness: a GRANT in strict mode has failed at the ensure call of a
\* namespace that is not defined, with nothing stored.
C34_Witness ==
    /\ op.name = "Grant"
    /\ op.opt.strict
    /\ ~out.ok
    /\ Len(calls) > 0
    /\ calls[Len(calls)] = <<"get_or_add", <<"ns", "n1">>>>
    /\ <<"ns", "n1">> \notin defs
    /\ store = <<>>

----------------------------------------------------------------------------
(* The audit specification: REVOKE and PURGE without an identifier and      *)
(* GRANT over stores of up to three grants, the store failing any one of    *)
(* the writes of a statement.                                               *)

\* The store fails the f-th write of a statement, for any f up to the
\* number of grants a scan returns.
AuditFaults == 0..Len(IdOrder)

\* Stores of grants created at 0: each absent, active, revoked at 0 or
\* expired at 0; the third absent or active.
AuditStores ==
    LET profiles == {"absent", <<None, None>>, <<None, Some(0)>>, <<Some(0), None>>}
        grants(id, pr) == IF pr = "absent" THEN {} ELSE {StoredGrant(id, pr[1], pr[2])}
    IN {StoreOf(grants("k1", p1) \cup grants("k2", p2) \cup grants("k3", p3)) :
            p1 \in profiles, p2 \in profiles, p3 \in {"absent", <<None, None>>}}

InitAudit ==
    /\ store \in AuditStores
    /\ defs = {<<"ns", "n1">>, ScopeDb}
    /\ now = TicksPerSec
    /\ op = [name |-> "Init"]
    /\ out = Ok("")
    /\ calls = <<>>
    /\ log = <<>>
    /\ pending = <<>>

\* The statements: REVOKE without an identifier, with or without a
\* condition on the identifier; PURGE of what is revoked, and of what is
\* expired or not; GRANT for the user tobie with either key identifier.
AuditRevokes == {Api([gr |-> None, cond |-> c]) : c \in {None, Some(CondId)}}
AuditPurges == {Api([expired |-> e, revoked |-> TRUE, grace |-> 0]) : e \in BOOLEAN}
AuditGrant == Api([subject |-> User("tobie")])
AuditRnds == {[id |-> i, secret |-> "s1"] : i \in {"k1", "k3"}}

NextAudit ==
    \/ \E s \in AuditRevokes, f \in AuditFaults : Revoke(s, Owner, Steady(now), f)
    \/ \E s \in AuditPurges, f \in AuditFaults : Purge(s, Owner, Steady(now), f)
    \/ \E r \in AuditRnds, f \in 0..1 : Grant(AuditGrant, Owner, r, Steady(now), f)

SpecAudit == InitAudit /\ [][NextAudit]_vars

----------------------------------------------------------------------------
(* Properties of the audit log *)

\* The identifiers, in scan order, of the grants under keys ks.
ScanIds(scope, ac, ks) == SelectSeq(IdOrder, LAMBDA i : gr_key(scope, ac, i) \in ks)

\* The keys of the set and del calls among the calls of a statement.
Written(cs) ==
    LET ws == SelectSeq(cs, LAMBDA c : c[1] \in {"set", "del"})
    IN [n \in 1..Len(ws) |-> ws[n][2]]

\* C35: a REVOKE without an identifier and a PURGE write grant after grant
\* in the order of the scan; the audit lines are those of the grants whose
\* write or delete has succeeded, in that order, so that the grant at which
\* the store fails has no line; the result of a statement that succeeds
\* lists the same grants in the same order; and a GRANT logs its audit
\* line only when its put has succeeded.
C35_AuditFollowsScan ==
    [][/\ ((IsBulkRevoke(op') \/ op'.name = "Purge") /\ Resolved(op', "Edit").ok)
          => LET a == Resolved(op', "Edit").v
                 ac == op'.stmt.ac
                 ks == GrantKeys(store, a.scope, ac)
                 touched == {k \in ks : k \notin DOMAIN store' \/ store'[k] # store[k]}
                 order == ScanIds(a.scope, ac, touched)
                 verb == IF op'.name = "Purge" THEN "purge" ELSE "revoke"
                 done == [n \in 1..Len(order) |-> gr_key(a.scope, ac, order[n])]
             IN /\ log' = [n \in 1..Len(order) |-> info(verb, store[done[n]], op'.opt)]
                /\ out'.ok => [n \in 1..Len(out'.v) |-> out'.v[n].id] = order
                /\ IF out'.ok THEN Written(calls') = done
                   ELSE /\ Len(Written(calls')) = Len(done) + 1
                        /\ SubSeq(Written(calls'), 1, Len(done)) = done
       /\ op'.name = "Grant"
          => SelectSeq(log', LAMBDA l : l[1] = "info")
                = IF store' # store THEN <<info("create", out'.v, op'.opt)>> ELSE <<>>]_vars

\* C35 witness: a REVOKE without an identifier has failed at its second
\* write, with the audit line of the first grant and no other.
C35_Witness ==
    /\ IsBulkRevoke(op)
    /\ op.fault = 2
    /\ ~out.ok
    /\ Len(Written(calls)) = 2
    /\ Len(log) = 1
    /\ log[1][4] = "k1"

----------------------------------------------------------------------------
(* Properties of the cache *)

\* The calls that read the store or the catalog.
IsRead(c) == c[1] \in {"get_access", "get_user", "get", "scan", "get_or_add"}

\* C36: a statement of any of the four kinds that is allowed clears the
\* cache of the transaction as its first call, before the lookup of the
\* access method and every later read, and clears it once.
C36_ClearBeforeRead ==
    [][(/\ IsStatement(op')
        /\ LevelOf(op').ok
        /\ <<Needs(op'), LevelOf(op').v>> \in op'.opt.auth.allowed)
       => /\ Len(calls') >= 1
          /\ calls'[1] = <<"clear">>
          /\ \A n \in 2..Len(calls') : calls'[n] # <<"clear">>
          /\ ScopeOf(op').ok => (Len(calls') >= 2 /\ calls'[2][1] = "get_access")]_vars

\* C36 witness: a SHOW has cleared the cache, looked up its access method
\* and then scanned the grants of the root.
C36_Witness ==
    /\ IsBulkShow(op)
    /\ op.stmt.base = Some("Root")
    /\ out.ok
    /\ Len(calls) = 3
    /\ calls[1] = <<"clear">>
    /\ IsRead(calls[2]) /\ IsRead(calls[3])
    /\ store # <<>>

----------------------------------------------------------------------------
(* The abort specification: SHOW and REVOKE without an identifier, with a   *)
(* condition whose evaluation fails on one grant, over stores of up to      *)
(* three grants.                                                            *)

\* WHERE conditions that throw on the grant of identifier i.
Throws == {[t |-> "throw_on_id", v |-> i] : i \in {"k1", "k2"}}

InitAbort ==
    /\ store \in AuditStores
    /\ defs = {<<"ns", "n1">>, ScopeDb}
    /\ now = TicksPerSec
    /\ op = [name |-> "Init"]
    /\ out = Ok("")
    /\ calls = <<>>
    /\ log = <<>>
    /\ pending = <<>>

\* The statements without a grant identifier, one for each condition.
AbortInputs == {Api([gr |-> None, cond |-> Some(c)]) : c \in Throws}

NextAbort ==
    \/ \E s \in AbortInputs : Show(s, Viewer, Steady(now))
    \/ \E s \in AbortInputs : Revoke(s, Owner, Steady(now), 0)

SpecAbort == InitAbort /\ [][NextAbort]_vars

----------------------------------------------------------------------------
(* Properties of a failing condition *)

\* The place of an identifier in the order of the scan.
Place(i) == CHOOSE n \in 1..Len(IdOrder) : IdOrder[n] = i

\* The evaluation of the statement's condition fails on the grant under k:
\* SHOW evaluates it on every grant, REVOKE on the unrevoked ones.
Fails(o, st, k) ==
    /\ IsSome(o.stmt.cond)
    /\ o.name = "Revoke" => ~IsSome(st[k].revocation)
    /\ ~cond_compute(Unwrap(o.stmt.cond), ToObject(redacted(st[k]))).ok

\* C37: when the evaluation of the condition fails on a grant, a SHOW or a
\* REVOKE without an identifier fails with that failure and returns no
\* collection; SHOW writes nothing, and REVOKE leaves the failing grant and
\* every grant after it in scan order as stored.
C37_ConditionFailureAborts ==
    [][((IsBulkShow(op') \/ IsBulkRevoke(op')) /\ Resolved(op', Needs(op')).ok)
       => LET a == Resolved(op', Needs(op')).v
              ks == GrantKeys(store, a.scope, op'.stmt.ac)
              failing == {k \in ks : Fails(op', store, k)}
          IN failing # {}
             => /\ out' = Err("Thrown")
                /\ IsBulkShow(op') => store' = store
                /\ \A k \in ks :
                      (\E f \in failing : Place(store[f].id) <= Place(store[k].id))
                      => (k \in DOMAIN store' /\ store'[k] = store[k])]_vars

\* C37 witness: a REVOKE has failed on the second grant of the scan, after
\* it has revoked the first and before it got to the third, which is
\* unrevoked.
C37_Witness ==
    /\ IsBulkRevoke(op)
    /\ out = Err("Thrown")
    /\ Unwrap(op.stmt.cond).v = "k2"
    /\ \E k \in DOMAIN store : store[k].id = "k1" /\ store[k].revocation = Some(now)
    /\ \E k \in DOMAIN store : store[k].id = "k2" /\ store[k].revocation = None
    /\ \E k \in DOMAIN store : store[k].id = "k3" /\ store[k].revocation = None

----------------------------------------------------------------------------
(* Properties of the level of a grant for a record *)

\* C38: a GRANT for a record on a bearer access method of the root or of a
\* namespace fails with DbEmpty and writes nothing, whether the method is
\* configured for users or for records; a GRANT for a record on a bearer
\* access method fails with AccessGrantInvalidSubject at the database level
\* only.
C38_LevelBeforeKind ==
    [][(/\ op'.name = "Grant"
        /\ Resolved(op', "Edit").ok
        /\ MethodOf(op').kind.t = "Bearer"
        /\ op'.stmt.subject.variant = "Record")
       => /\ Resolved(op', "Edit").v.base \in {"Root", "Ns"}
             => out' = Err("DbEmpty") /\ WroteNothing
          /\ out' = Err("AccessGrantInvalidSubject")
             => /\ Resolved(op', "Edit").v.base = "Db"
                /\ MethodOf(op').kind.subject = "User"]_vars

\* C38 witness: a GRANT for a record on the root's bearer access method for
\* users has failed with DbEmpty.
C38_Witness ==
    /\ op.name = "Grant"
    /\ op.stmt.ac = "api" /\ Resolved(op, "Edit").ok
    /\ Resolved(op, "Edit").v.base = "Root"
    /\ MethodOf(op).kind.subject = "User"
    /\ op.stmt.subject.variant = "Record"
    /\ out = Err("DbEmpty")

----------------------------------------------------------------------------
(* The scope specification: the four statements on the access methods api   *)
(* and rapi at the three levels, over stores that hold a grant of the same  *)
(* identifier under several access methods and levels.                      *)

\* The access methods and levels under which the stores hold a grant.
Placements ==
    {<<ScopeRoot, "api">>, <<ScopeNs, "api">>, <<ScopeDb, "api">>, <<ScopeDb, "rapi">>}

\* The unrevoked grant "k1" stored at placement p: the one of the
\* database's method api is created a tick after the others, and the
\* expiration follows the duration of the method.
PlacedGrant(p) ==
    LET ac == CHOOSE a \in Catalog : a.scope = p[1] /\ a.name = p[2]
        creation == IF p = <<ScopeDb, "api">> THEN 1 ELSE 0
    IN [id |-> "k1", ac |-> p[2], creation |-> creation,
        expiration |-> IF IsSome(ac.duration.grant)
                       THEN Some(creation + Unwrap(ac.duration.grant) * TicksPerSec)
                       ELSE None,
        revocation |-> None,
        subject |-> IF ac.kind.subject = "User" THEN User("tobie") ELSE Record("r1"),
        grant |-> hashed(GrantBearer_new(prefix("Bearer"), "k1", "s1"))]

\* Stores with a grant at each placement or not.
ScopeStores ==
    {[k \in {gr_key(p[1], p[2], "k1") : p \in ps} |->
        PlacedGrant(CHOOSE q \in ps : gr_key(q[1], q[2], "k1") = k)] :
            ps \in SUBSET Placements}

\* The statements are about the method api of the database and of the root
\* and the method rapi of the database.
ScopeTargets ==
    {[ac |-> "api", base |-> None], [ac |-> "api", base |-> Some("Root")],
     [ac |-> "rapi", base |-> None]}

\* The clock is two seconds on: the grants of the method api in the store
\* have expired.
InitScope ==
    /\ store \in ScopeStores
    /\ defs = {<<"ns", "n1">>, ScopeDb}
    /\ now = 2 * TicksPerSec
    /\ op = [name |-> "Init"]
    /\ out = Ok("")
    /\ calls = <<>>
    /\ log = <<>>
    /\ pending = <<>>

\* The statements on the targets: GRANT for the user tobie on api and for a
\* record on rapi, with the key identifier "k1"; SHOW and REVOKE of all
\* grants and of the grant "k1"; PURGE of what is expired or revoked,
\* without grace.
ScopeGrants ==
    {t @@ [subject |-> IF t.ac = "api" THEN User("tobie") ELSE Record("r1")] :
        t \in ScopeTargets}
ScopeRnd == [id |-> "k1", secret |-> "s1"]
ScopeSelections ==
    {t @@ [gr |-> g, cond |-> None] : t \in ScopeTargets, g \in {None, Some("k1")}}
ScopePurges ==
    {t @@ [expired |-> TRUE, revoked |-> TRUE, grace |-> 0] : t \in ScopeTargets}

NextScope ==
    \/ \E s \in ScopeGrants : Grant(s, Owner, ScopeRnd, Steady(now), 0)
    \/ \E s \in ScopeSelections : Show(s, Owner, Steady(now))
    \/ \E s \in ScopeSelections : Revoke(s, Owner, Steady(now), 0)
    \/ \E s \in ScopePurges : Purge(s, Owner, Steady(now), 0)

SpecScope == InitScope /\ [][NextScope]_vars

----------------------------------------------------------------------------
(* Properties of the scope of a statement *)

\* The keys of store st outside access method ac of scope.
Foreign(st, scope, ac) == DOMAIN st \ GrantKeys(st, scope, ac)

\* C39: a GRANT, REVOKE or PURGE on an access method at a level adds,
\* changes and deletes no grant stored under another access method or at
\* another level, and every grant a SHOW returns is one stored under its
\* access method at its level; the statement reads, scans, writes and
\* deletes grants under the keys of its access method at its level only.
C39_ScopeConfined ==
    [][(IsStatement(op') /\ Resolved(op', Needs(op')).ok)
       => LET a == Resolved(op', Needs(op')).v
          IN /\ Foreign(store', a.scope, op'.stmt.ac) = Foreign(store, a.scope, op'.stmt.ac)
             /\ \A k \in Foreign(store, a.scope, op'.stmt.ac) : store'[k] = store[k]
             /\ (op'.name = "Show" /\ out'.ok)
                => \A g \in Returned(op', out'.v) :
                      /\ g.ac = op'.stmt.ac
                      /\ \E k \in GrantKeys(store, a.scope, op'.stmt.ac) :
                            g = KeyRedacted(store[k])
             /\ \A c \in Range(calls') :
                   /\ c[1] \in {"get", "put", "set", "del"}
                      => \E i \in Range(IdOrder) : c[2] = gr_key(a.scope, op'.stmt.ac, i)
                   /\ c[1] = "scan" => c[2] = a.scope \o <<op'.stmt.ac>>]_vars

\* C39 witness: a REVOKE at the root level has revoked the root's grant
\* "k1" of the access method api, and the grants "k1" of the same method in
\* the namespace and in the database and the one of the database's method
\* rapi are in the store, unrevoked.
C39_Witness ==
    /\ IsSingleRevoke(op)
    /\ op.stmt.ac = "api" /\ op.stmt.base = Some("Root")
    /\ out.ok
    /\ gr_key(ScopeRoot, "api", "k1") \in DOMAIN store
    /\ store[gr_key(ScopeRoot, "api", "k1")].revocation = Some(now)
    /\ \A p \in Placements \ {<<ScopeRoot, "api">>} :
          /\ gr_key(p[1], p[2], "k1") \in DOMAIN store
          /\ store[gr_key(p[1], p[2], "k1")].revocation = None

----------------------------------------------------------------------------
(* The identifier specification: SHOW and REVOKE with a grant identifier    *)
(* and a condition that is truthy, falsy or failing on the grant.           *)

\* WHERE conditions: on the identifier of either grant, or throwing on it.
ByIdConds ==
    {Some([t |-> "id", v |-> i]) : i \in {"k1", "k2"}} \cup {Some(c) : c \in Throws}

InitById ==
    /\ store \in FilterStores
    /\ defs = {<<"ns", "n1">>, ScopeDb}
    /\ now = TicksPerSec
    /\ op = [name |-> "Init"]
    /\ out = Ok("")
    /\ calls = <<>>
    /\ log = <<>>
    /\ pending = <<>>

\* The statements: either grant identifier with each condition.
ByIdInputs == {Api([gr |-> Some(g), cond |-> c]) : g \in {"k1", "k2"}, c \in ByIdConds}

NextById ==
    \/ \E s \in ByIdInputs : Show(s, Owner, Steady(now))
    \/ \E s \in ByIdInputs : Revoke(s, Owner, Steady(now), 0)

SpecById == InitById /\ [][NextById]_vars

----------------------------------------------------------------------------
(* Properties of a condition next to a grant identifier *)

\* C40: a SHOW or a REVOKE with a grant identifier and a condition does
\* what it does without the condition, whether the condition is truthy,
\* falsy or failing on the grant: SHOW returns the stored grant, redacted,
\* REVOKE revokes it when it is unrevoked and the store takes the write,
\* and the failure of the condition is never the result.
C40_IdOverridesCondition ==
    [][((IsSingleShow(op') \/ IsSingleRevoke(op'))
        /\ IsSome(op'.stmt.cond)
        /\ Resolved(op', Needs(op')).ok)
       => LET a == Resolved(op', Needs(op')).v
              k == gr_key(a.scope, op'.stmt.ac, Unwrap(op'.stmt.gr))
          IN /\ out' # Err("Thrown")
             /\ k \notin DOMAIN store => out' = Err("AccessGrantNotFound")
             /\ (IsSingleShow(op') /\ k \in DOMAIN store)
                => out' = Ok(KeyRedacted(store[k]))
             /\ (IsSingleRevoke(op') /\ k \in DOMAIN store)
                => IF IsSome(store[k].revocation)
                   THEN out' = Err("AccessGrantRevoked")
                   ELSE ~StoreFailed(op', calls')
                        => /\ store' = [store EXCEPT ![k].revocation = Some(now)]
                           /\ out' = Ok(<<KeyRedacted(store'[k])>>)]_vars

\* C40 witness: REVOKE GRANT k1 with a condition that fails on the grant
\* "k1" has revoked it at the present time.
C40_Witness ==
    /\ IsSingleRevoke(op)
    /\ op.stmt.gr = Some("k1")
    /\ op.stmt.cond = Some([t |-> "throw_on_id", v |-> "k1"])
    /\ gr_key(ScopeDb, "api", "k1") \in DOMAIN store
    /\ ~cond_compute(Unwrap(op.stmt.cond),
                     ToObject(redacted(store[gr_key(ScopeDb, "api", "k1")]))).ok
    /\ out.ok
    /\ Len(out.v) = 1
    /\ store[gr_key(ScopeDb, "api", "k1")].revocation = Some(now)

====
